---- MODULE Spec2Model ----
(***************************************************************************)
(* A model of the ICC rule validation engine (app/services/validator.py,   *)
(* app/services/llm_classifier.py, app/routers/validate.py).               *)
(*                                                                         *)
(* Python values are tagged records: None, Str (a sequence of one-letter   *)
(* strings, so that parsing works on the characters), Num (a JSON number)  *)
(* and List (a JSON array, by its length).  A call that can raise returns  *)
(* Return(v) or Raise(e).                                                  *)
(***************************************************************************)
EXTENDS Integers, Sequences, FiniteSets, TLC

VARIABLES
    rules,        \* the rules table, in the order the store returns its rows
    validations,  \* the validations table (the audit log), in insertion order
    now,          \* the server clock
    run,          \* the validate request in progress or just answered, if any
    response,     \* the response of POST /validate/ or /validate/quick, until
                  \* the next request or step
    history,      \* the response of GET /validate/history/{document_id}, until
                  \* the next request or step
    call,         \* the call of one engine function on drawn inputs (SpecEval)
    peer          \* a second validate request, in another worker, with its
                  \* response (SpecConcurrent)

vars == <<rules, validations, now, run, response, history, call, peer>>

---------------------------------------------------------------------------
(* Python values *)

None == [t |-> "none"]
Str(s) == [t |-> "str", s |-> s]
\* a string whose characters nothing looks into
Text(x) == [t |-> "text", x |-> x]
Num(n) == [t |-> "num", n |-> n]
List(n) == [t |-> "list", n |-> n]

\* bool(v): what `x and v` tests
Truthy(v) ==
    CASE v.t = "none" -> FALSE
      [] v.t = "str" -> Len(v.s) > 0
      [] v.t = "text" -> v.x # ""
      [] v.t = "num" -> v.n # 0
      [] v.t = "list" -> v.n > 0
      [] OTHER -> TRUE

Return(v) == [raised |-> FALSE, val |-> v]
Raise(type, text, arg) == [raised |-> TRUE, type |-> type, text |-> text, arg |-> arg]

\* str(e) of an exception, and an f-string around it: a template text and
\* the value formatted into it
Message(text, arg) == [t |-> "fmt", text |-> text, arg |-> arg]
Prefixed(prefix, e) == Message(prefix \o e.text, e.arg)
IsString(v) == v.t \in {"str", "text", "fmt"}

---------------------------------------------------------------------------
(* Characters *)

Digits == <<"0", "1", "2", "3", "4", "5", "6", "7", "8", "9">>
IsDigit(c) == \E i \in 1..10 : Digits[i] = c
DigitValue(c) == (CHOOSE i \in 1..10 : Digits[i] = c) - 1

RECURSIVE DigitRun(_, _)
\* the length of the longest run of digits of s that starts at position i
DigitRun(s, i) ==
    IF i <= Len(s) /\ IsDigit(s[i]) THEN 1 + DigitRun(s, i + 1) ELSE 0

RECURSIVE NumValue(_, _, _)
\* the number written by the n digits of s from position i
NumValue(s, i, n) ==
    IF n = 0 THEN 0 ELSE NumValue(s, i, n - 1) * 10 + DigitValue(s[i + n - 1])

---------------------------------------------------------------------------
(* float(x), for the amount check.  The strings of this model are written  *)
(* with blanks around them, a sign, digits and a decimal point, or are the *)
(* words "inf", "infinity" and "nan" in either case; exponents and         *)
(* underscores are outside their alphabet.                                  *)

\* a float: its sign, the digits before and after its point, and whether
\* it is an infinity or not a number
Float(neg, whole, frac, inf, nan) ==
    [neg |-> neg, whole |-> whole, frac |-> frac, inf |-> inf, nan |-> nan]

\* the string s read as: a sign if signed, n1 digits, and, if dot, a point
\* and n2 digits; start is the position of the first digit
FloatOfParts(s, signed, start, n1, dot, n2) ==
    IF (IF dot THEN start + n1 + 1 + n2 ELSE start + n1) = Len(s) + 1 /\ n1 + n2 >= 1
    THEN Return(Float(signed /\ s[1] = "-", NumValue(s, start, n1),
                      NumValue(s, start + n1 + 1, n2), FALSE, FALSE))
    ELSE Raise("ValueError", "could not convert string to float: {}", Str(s))

FloatOfDigits(s, signed, start, n1) ==
    FloatOfParts(s, signed, start, n1,
                 start + n1 <= Len(s) /\ s[start + n1] = ".",
                 IF start + n1 <= Len(s) /\ s[start + n1] = "."
                 THEN DigitRun(s, start + n1 + 1) ELSE 0)

\* a letter of the words below, in lower case
Lower(c) ==
    CASE c = "I" -> "i" [] c = "N" -> "n" [] c = "F" -> "f" [] c = "T" -> "t"
      [] c = "Y" -> "y" [] c = "A" -> "a" [] OTHER -> c
\* s from position i on, in lower case
Word(s, i) == [k \in 1..(Len(s) + 1 - i) |-> Lower(s[i + k - 1])]

FloatOfWord(s, signed, word) ==
    IF word \in {<<"i", "n", "f">>, <<"i", "n", "f", "i", "n", "i", "t", "y">>}
    THEN Return(Float(signed /\ s[1] = "-", 0, 0, TRUE, FALSE))
    ELSE IF word = <<"n", "a", "n">>
    THEN Return(Float(signed /\ s[1] = "-", 0, 0, FALSE, TRUE))
    ELSE FloatOfDigits(s, signed, IF signed THEN 2 ELSE 1,
                       DigitRun(s, IF signed THEN 2 ELSE 1))

FloatOfSigned(s, signed) == FloatOfWord(s, signed, Word(s, IF signed THEN 2 ELSE 1))

RECURSIVE Blanks(_, _, _)
\* the number of blanks of s from position i on in direction step
Blanks(s, i, step) ==
    IF i >= 1 /\ i <= Len(s) /\ s[i] = " " THEN 1 + Blanks(s, i + step, step) ELSE 0
\* s without the blanks around it
Strip(s) ==
    IF Blanks(s, 1, 1) = Len(s) THEN <<>>
    ELSE SubSeq(s, 1 + Blanks(s, 1, 1), Len(s) - Blanks(s, Len(s), -1))

\* float(x) of a string: blanks, then [sign] digits [. digits],
\* [sign] . digits, [sign] inf, [sign] infinity or [sign] nan, then blanks
FloatOfStripped(original, s) ==
    IF FloatOfSigned(s, Len(s) >= 1 /\ s[1] \in {"+", "-"}).raised
    THEN Raise("ValueError", "could not convert string to float: {}", Str(original))
    ELSE FloatOfSigned(s, Len(s) >= 1 /\ s[1] \in {"+", "-"})
FloatOfStr(s) == FloatOfStripped(s, Strip(s))

float(x) ==
    CASE x.t = "str" -> FloatOfStr(x.s)
      [] x.t = "num" -> Return(Float(x.n < 0, IF x.n < 0 THEN 0 - x.n ELSE x.n, 0,
                                     FALSE, FALSE))
      [] OTHER -> Raise("TypeError",
                        "float() argument must be a string or a real number, not {}", x)

\* amount_value > 0
FloatPositive(f) == ~f.nan /\ ~f.neg /\ (f.inf \/ f.whole > 0 \/ f.frac > 0)

---------------------------------------------------------------------------
(* datetime *)

\* a string cut into its runs of digits and its other characters
RECURSIVE Tokens(_, _)
Tokens(s, i) ==
    IF i > Len(s) THEN <<>>
    ELSE LET n == DigitRun(s, i)
         IN  IF n > 0
             THEN <<[k |-> "num", n |-> n, v |-> NumValue(s, i, n), c |-> ""]>>
                      \o Tokens(s, i + n)
             ELSE <<[k |-> "sep", n |-> 0, v |-> 0, c |-> s[i]]>> \o Tokens(s, i + 1)

IsLeap(y) == (y % 4 = 0 /\ y % 100 # 0) \/ y % 400 = 0
DaysInMonth(y, m) ==
    IF m = 2 THEN (IF IsLeap(y) THEN 29 ELSE 28)
    ELSE IF m \in {4, 6, 9, 11} THEN 30 ELSE 31
DaysBeforeMonth(y, m) ==
    <<0, 31, 59, 90, 120, 151, 181, 212, 243, 273, 304, 334>>[m]
        + (IF m > 2 /\ IsLeap(y) THEN 1 ELSE 0)
\* datetime.toordinal(): the day number of y-m-d, 0001-01-01 being day 1
Ordinal(y, m, d) ==
    365 * (y - 1) + ((y - 1) \div 4) - ((y - 1) \div 100) + ((y - 1) \div 400)
        + DaysBeforeMonth(y, m) + d

\* datetime(y, m, d, H, M, S, tzinfo): the fields are range-checked; off is
\* the UTC offset in minutes of an aware datetime
datetime(y, m, d, H, M, S, aware, off) ==
    IF y \in 1..9999 /\ m \in 1..12 /\ d >= 1 /\ d <= DaysInMonth(y, m)
          /\ H \in 0..23 /\ M \in 0..59 /\ S \in 0..59
    THEN Return([aware |-> aware, day |-> Ordinal(y, m, d),
                 sec |-> H * 3600 + M * 60 + S, off |-> off])
    ELSE Raise("ValueError", "value is out of range", None)

\* One directive of a strptime format against one token: a field of the
\* directive's width, or the literal character.
FieldMatches(dir, tok) ==
    CASE dir = "%Y" -> tok.k = "num" /\ tok.n = 4
      [] dir \in {"%m", "%d", "%H", "%M", "%S"} -> tok.k = "num" /\ tok.n \in 1..2
      [] OTHER -> tok.k = "sep" /\ tok.c = dir

\* the value of directive dir in the tokens of a matching string (0 when
\* the format has no such directive)
FieldOf(fmt, toks, dir) ==
    IF \E i \in 1..Len(fmt) : fmt[i] = dir
    THEN toks[CHOOSE i \in 1..Len(fmt) : fmt[i] = dir].v
    ELSE 0

\* datetime.strptime(date_str, fmt), fmt being a sequence of directives and
\* literal characters
StrptimeTokens(s, fmt, toks) ==
    IF Len(toks) = Len(fmt) /\ \A i \in 1..Len(fmt) : FieldMatches(fmt[i], toks[i])
    THEN datetime(FieldOf(fmt, toks, "%Y"), FieldOf(fmt, toks, "%m"),
                  FieldOf(fmt, toks, "%d"), FieldOf(fmt, toks, "%H"),
                  FieldOf(fmt, toks, "%M"), FieldOf(fmt, toks, "%S"), FALSE, 0)
    ELSE Raise("ValueError", "time data {} does not match format", Str(s))
strptime(s, fmt) == StrptimeTokens(s, fmt, Tokens(s, 1))

RECURSIVE ReplaceZ(_, _)
\* date_str.replace("Z", "+00:00")
ReplaceZ(s, i) ==
    IF i > Len(s) THEN <<>>
    ELSE (IF s[i] = "Z" THEN <<"+", "0", "0", ":", "0", "0">> ELSE <<s[i]>>)
             \o ReplaceZ(s, i + 1)

\* tokens i.. of toks are a two-digit field, or the character c
Two(toks, i) == i <= Len(toks) /\ toks[i].k = "num" /\ toks[i].n = 2
Chr(toks, i, c) == i <= Len(toks) /\ toks[i].k = "sep" /\ toks[i].c = c

\* the tokens read as a date, a time if time (with seconds if secs, the
\* time ending at token tend) and an offset if offs
IsoOfParts(s, toks, date, time, secs, tend, offs) ==
    IF /\ date
       /\ Len(toks) = (IF ~time THEN 5 ELSE IF offs THEN tend + 4 ELSE tend)
       /\ offs => toks[tend + 2].v <= 23 /\ toks[tend + 4].v <= 59
    THEN datetime(toks[1].v, toks[3].v, toks[5].v,
                  IF time THEN toks[7].v ELSE 0, IF time THEN toks[9].v ELSE 0,
                  IF secs THEN toks[11].v ELSE 0, offs,
                  IF offs
                  THEN (IF toks[tend + 1].c = "-" THEN -1 ELSE 1)
                           * (toks[tend + 2].v * 60 + toks[tend + 4].v)
                  ELSE 0)
    ELSE Raise("ValueError", "Invalid isoformat string: {}", Str(s))

IsoOfTime(s, toks, date, time, secs, tend) ==
    IsoOfParts(s, toks, date, time, secs, tend,
               /\ time
               /\ (Chr(toks, tend + 1, "+") \/ Chr(toks, tend + 1, "-"))
               /\ Two(toks, tend + 2) /\ Chr(toks, tend + 3, ":") /\ Two(toks, tend + 4))

IsoOfDate(s, toks, date, time, secs) ==
    IsoOfTime(s, toks, date, time, secs, IF secs THEN 11 ELSE 9)

IsoOfTokens(s, toks, time) ==
    IsoOfDate(s, toks,
              /\ Len(toks) >= 5 /\ toks[1].k = "num" /\ toks[1].n = 4
              /\ Chr(toks, 2, "-") /\ Two(toks, 3) /\ Chr(toks, 4, "-") /\ Two(toks, 5),
              time,
              time /\ Chr(toks, 10, ":") /\ Two(toks, 11))

\* datetime.fromisoformat(s): YYYY-MM-DD, then optionally one separator
\* character and HH:MM[:SS], then optionally an offset +HH:MM or -HH:MM
FromIsoTokens(s, toks) ==
    IsoOfTokens(s, toks,
                /\ Len(toks) >= 9 /\ toks[6].k = "sep"
                /\ Two(toks, 7) /\ Chr(toks, 8, ":") /\ Two(toks, 9))
fromisoformat(s) == FromIsoTokens(s, Tokens(s, 1))

\* the formats _parse_date tries, in its order
formats ==
    << <<"%Y", "-", "%m", "-", "%d">>,
       <<"%d", "-", "%m", "-", "%Y">>,
       <<"%m", "/", "%d", "/", "%Y">>,
       <<"%Y", "-", "%m", "-", "%d", " ", "%H", ":", "%M", ":", "%S">> >>

RECURSIVE TryFormats(_, _)
\* the loop over the formats from the k-th on, then the ISO attempt
TryFormat(s, k, r) == IF r.raised THEN TryFormats(s, k + 1) ELSE r
TryFormats(s, k) ==
    IF k > Len(formats) THEN fromisoformat(ReplaceZ(s, 1))
    ELSE TryFormat(s, k, strptime(s, formats[k]))

\* the bare except of _parse_date turns every failure into ValueError
ParseDateExcept(date_str, r) ==
    IF r.raised THEN Raise("ValueError", "Unable to parse date: {}", date_str) ELSE r

\* ValidationEngine._parse_date: a value that is no string makes strptime
\* raise TypeError
_parse_date(date_str) ==
    ParseDateExcept(date_str,
        IF date_str.t = "str" THEN TryFormats(date_str.s, 1)
        ELSE Raise("TypeError", "strptime() argument 1 must be str", date_str))

\* The instant of an aware datetime as (day, second) in UTC
UtcDay(d) == d.day + ((d.sec - d.off * 60) \div 86400)
UtcSec(d) == (d.sec - d.off * 60) % 86400

\* (day, second) pairs in their order
InstantLe(d1, s1, d2, s2) == d1 < d2 \/ (d1 = d2 /\ s1 <= s2)

\* a >= b and a <= b of two datetimes: naive and aware do not compare
DatetimeLe(a, b) ==
    IF a.aware # b.aware
    THEN Raise("TypeError", "can't compare offset-naive and offset-aware datetimes", None)
    ELSE IF a.aware
         THEN Return(InstantLe(UtcDay(a), UtcSec(a), UtcDay(b), UtcSec(b)))
         ELSE Return(InstantLe(a.day, a.sec, b.day, b.sec))
DatetimeGe(a, b) == DatetimeLe(b, a)


---------------------------------------------------------------------------
(* The pseudo-logic interpreter *)

\* A rule's logic is None or a string, written as the sequence of its
\* phrases; `"p" in logic` holds when p is one of them.
Logic(phrases) == [t |-> "str", s |-> phrases]
Contains(pat, logic) == \E i \in 1..Len(logic.s) : logic.s[i] = pat

PExpiry == "expiry_date >= shipment_date"
PShipment == "shipment_date <= presentation_date"
PCurrency == "currency"
PAmount == "amount > 0"

\* the currencies of the currency check
AcceptedCurrencies ==
    {<<"U", "S", "D">>, <<"E", "U", "R">>, <<"G", "B", "P">>, <<"J", "P", "Y">>}

Verdict(status, details) == [status |-> status, details |-> details]

\* self._parse_date(x) >= self._parse_date(y), a and b being the two
\* parses: the left operand is parsed first
GeOfParsed(a, b) ==
    IF a.raised THEN a ELSE IF b.raised THEN b ELSE DatetimeGe(a.val, b.val)
LeOfParsed(a, b) ==
    IF a.raised THEN a ELSE IF b.raised THEN b ELSE DatetimeLe(a.val, b.val)
ParsedGe(x, y) == GeOfParsed(_parse_date(x), _parse_date(y))
ParsedLe(x, y) == LeOfParsed(_parse_date(x), _parse_date(y))

\* the two returns of a date check, c being its comparison
DateVerdict(c, passed, failed) ==
    IF c.raised THEN c
    ELSE IF c.val THEN Return(Verdict(TRUE, Text(passed)))
    ELSE Return(Verdict(FALSE, Text(failed)))

\* an amount branch that accepts zero
AmountVerdict_zero_passes(f) ==
    IF f.raised
    THEN (IF f.type = "ValueError"
          THEN Return(Verdict(FALSE, Text("Invalid amount format")))
          ELSE f)
    ELSE IF FloatPositive(f.val) \/ (f.val.whole = 0 /\ f.val.frac = 0 /\ ~f.val.inf)
         THEN Return(Verdict(TRUE, Text("Amount is positive")))
         ELSE Return(Verdict(FALSE, Text("Amount must be positive")))

\* the amount branch, with its own try/except ValueError; f is float(amount)
AmountVerdict(f) ==
    IF f.raised
    THEN (IF f.type = "ValueError"
          THEN Return(Verdict(FALSE, Text("Invalid amount format")))
          ELSE f)
    ELSE IF FloatPositive(f.val)
         THEN Return(Verdict(TRUE, Text("Amount is positive")))
         ELSE Return(Verdict(FALSE, Text("Amount must be positive")))
AmountCheck(amount) == AmountVerdict(float(amount))

CurrencyCheck(currency) ==
    IF currency.t = "str" /\ currency.s \in AcceptedCurrencies
    THEN Return(Verdict(TRUE, Message("Currency {} is acceptable", currency)))
    ELSE Return(Verdict(FALSE, Message("Currency {} may not be acceptable", currency)))

\* the checks taken in another order: the amount check before the others
ExecuteChecks_amount_first(logic, document_data) ==
    IF Contains(PAmount, logic) /\ Truthy(document_data.amount)
    THEN AmountCheck(document_data.amount)
    ELSE IF /\ Contains(PExpiry, logic)
            /\ Truthy(document_data.expiry_date) /\ Truthy(document_data.shipment_date)
    THEN DateVerdict(ParsedGe(document_data.expiry_date, document_data.shipment_date),
                     "Expiry date is after shipment date",
                     "Expiry date is before shipment date")
    ELSE IF /\ Contains(PShipment, logic)
            /\ Truthy(document_data.shipment_date)
            /\ Truthy(document_data.presentation_date)
    THEN DateVerdict(ParsedLe(document_data.shipment_date,
                              document_data.presentation_date),
                     "Shipment date is before or equal to presentation date",
                     "Shipment date is after presentation date")
    ELSE IF Contains(PCurrency, logic) /\ Truthy(document_data.currency)
    THEN CurrencyCheck(document_data.currency)
    ELSE Return(Verdict(TRUE, Text("Rule logic executed successfully")))

\* the checks with a default that fails
ExecuteChecks_default_fail(logic, document_data) ==
    IF /\ Contains(PExpiry, logic)
       /\ Truthy(document_data.expiry_date) /\ Truthy(document_data.shipment_date)
    THEN DateVerdict(ParsedGe(document_data.expiry_date, document_data.shipment_date),
                     "Expiry date is after shipment date",
                     "Expiry date is before shipment date")
    ELSE IF /\ Contains(PShipment, logic)
            /\ Truthy(document_data.shipment_date)
            /\ Truthy(document_data.presentation_date)
    THEN DateVerdict(ParsedLe(document_data.shipment_date,
                              document_data.presentation_date),
                     "Shipment date is before or equal to presentation date",
                     "Shipment date is after presentation date")
    ELSE IF Contains(PCurrency, logic) /\ Truthy(document_data.currency)
    THEN CurrencyCheck(document_data.currency)
    ELSE IF Contains(PAmount, logic) /\ Truthy(document_data.amount)
    THEN AmountCheck(document_data.amount)
    ELSE Return(Verdict(FALSE, Text("No applicable check")))

\* the body of the try block of _execute_rule_logic: the four checks in
\* their order, then the default
ExecuteChecks(logic, document_data) ==
    IF /\ Contains(PExpiry, logic)
       /\ Truthy(document_data.expiry_date) /\ Truthy(document_data.shipment_date)
    THEN DateVerdict(ParsedGe(document_data.expiry_date, document_data.shipment_date),
                     "Expiry date is after shipment date",
                     "Expiry date is before shipment date")
    ELSE IF /\ Contains(PShipment, logic)
            /\ Truthy(document_data.shipment_date)
            /\ Truthy(document_data.presentation_date)
    THEN DateVerdict(ParsedLe(document_data.shipment_date,
                              document_data.presentation_date),
                     "Shipment date is before or equal to presentation date",
                     "Shipment date is after presentation date")
    ELSE IF Contains(PCurrency, logic) /\ Truthy(document_data.currency)
    THEN CurrencyCheck(document_data.currency)
    ELSE IF Contains(PAmount, logic) /\ Truthy(document_data.amount)
    THEN AmountCheck(document_data.amount)
    ELSE Return(Verdict(TRUE, Text("Rule logic executed successfully")))

\* an except clause that lets the exception through
ExecuteExcept_reraise(e) == e

\* the except clause of _execute_rule_logic
ExecuteExcept(e) ==
    Return(Verdict(FALSE, Prefixed("Error executing logic: ", e)))

\* the try statement of _execute_rule_logic, r being the outcome of its body
ExecuteTry(r) == IF r.raised THEN ExecuteExcept(r) ELSE r

\* an interpreter that takes a rule without logic for a passing one
_execute_rule_logic_no_logic_passes(logic, document_data) ==
    IF ~Truthy(logic)
    THEN Return(Verdict(TRUE, Text("No logic defined for this rule")))
    ELSE ExecuteTry(ExecuteChecks(logic, document_data))

\* ValidationEngine._execute_rule_logic
_execute_rule_logic(logic, document_data) ==
    IF ~Truthy(logic)
    THEN Return(Verdict(FALSE, Text("No logic defined for this rule")))
    ELSE ExecuteTry(ExecuteChecks(logic, document_data))

---------------------------------------------------------------------------
(* Per-rule validation *)

PASS == "pass"
FAIL == "fail"
WARNING == "warning"

\* A rule's text, by its length; a slice text[:k] keeps the first k
\* characters and the result says whether "..." was appended.
RuleText(name, len) == [name |-> name, len |-> len, dots |-> FALSE]
Shorten(text, k) ==
    IF text.len > k THEN [name |-> text.name, len |-> k, dots |-> TRUE] ELSE text

ResultTextLimit == 200

ValidationResult(rule, status, details, confidence_score) ==
    [rule_id |-> rule.rule_id,
     rule_text |-> Shorten(rule.text, ResultTextLimit),
     status |-> status,
     details |-> details,
     confidence_score |-> confidence_score]

\* the except clause of _validate_codable_rule
CodableExcept(rule, e) ==
    Return(ValidationResult(rule, WARNING,
                            Prefixed("Error executing rule logic: ", e), Text("low")))

\* a try statement that reports every verdict with medium confidence
CodableTry_medium(rule, result) ==
    IF result.raised THEN CodableExcept(rule, result)
    ELSE IF result.val.status
         THEN Return(ValidationResult(rule, PASS, result.val.details, Text("medium")))
         ELSE Return(ValidationResult(rule, FAIL, result.val.details, Text("medium")))

\* the try statement of _validate_codable_rule, result being the outcome
\* of _execute_rule_logic
CodableTry(rule, result) ==
    IF result.raised THEN CodableExcept(rule, result)
    ELSE IF result.val.status
         THEN Return(ValidationResult(rule, PASS, result.val.details, Text("high")))
         ELSE Return(ValidationResult(rule, FAIL, result.val.details, Text("high")))

\* ValidationEngine._validate_codable_rule
_validate_codable_rule(rule, document_data) ==
    CodableTry(rule, _execute_rule_logic(rule.logic, document_data))


---------------------------------------------------------------------------
(* The judgment oracle (LLMClassifier.validate_with_ai) *)

\* What client.chat.completions.create(...) does is the environment's
\* choice: it raises, or returns a response whose content is or is not JSON.
ApiError(text) == Raise("APIConnectionError", text, None)
ApiContent(value) == Return([json |-> TRUE, value |-> value])
ApiGarbage == Return([json |-> FALSE])

\* a key a dict does not have
Missing == [t |-> "missing"]
Dict(status, details, confidence_score) ==
    [t |-> "dict", status |-> status, details |-> details,
     confidence_score |-> confidence_score]

\* json.loads(response.choices[0].message.content)
json_loads(content) ==
    IF content.json THEN Return(content.value)
    ELSE Raise("JSONDecodeError", "Expecting value: line 1 column 1 (char 0)", None)

\* an except clause that reports the failure as a verdict of the oracle
OracleExcept_fail(e) ==
    Return(Dict(Text("fail"), Prefixed("AI validation error: ", e), Text("high")))

\* the except clause of validate_with_ai
OracleExcept(e) ==
    Return(Dict(Text("warning"), Prefixed("AI validation error: ", e), Text("low")))

\* the try statement of validate_with_ai, result being the outcome of the
\* call and of json.loads
OracleTry(result) == IF result.raised THEN OracleExcept(result) ELSE result

\* LLMClassifier.validate_with_ai
validate_with_ai(rule_text, document_data, api) ==
    OracleTry(IF api.raised THEN api ELSE json_loads(api.val))

\* a mapping whose default is Pass
StatusMapping_default_pass(status) ==
    IF status.t = "text" /\ status.x \in {"pass", "fail", "warning"}
    THEN status.x
    ELSE PASS

\* status_mapping.get(ai_result["status"], SchemaValidationStatus.WARNING)
StatusMapping(status) ==
    IF status.t = "text" /\ status.x \in {"pass", "fail", "warning"}
    THEN status.x
    ELSE WARNING

\* ValidationResult(...) of the AI branch: the model validates the two
\* optional string fields
AiResult(rule, status, details, confidence_score) ==
    IF ~(details = None \/ IsString(details))
    THEN Raise("ValidationError", "details: Input should be a valid string", details)
    ELSE IF ~(confidence_score = None \/ IsString(confidence_score))
    THEN Raise("ValidationError", "confidence_score: Input should be a valid string",
               confidence_score)
    ELSE Return(ValidationResult(rule, StatusMapping(status), details, confidence_score))

\* the body of the try block of _validate_ai_assisted_rule after the
\* oracle's return: ai_result["status"], .get("details", ...) and
\* .get("confidence_score", "medium")
AiMapping(rule, ai_result) ==
    IF ai_result.t # "dict"
    THEN Raise("TypeError", "{} indices must be integers or slices, not str", ai_result)
    ELSE IF ai_result.status = Missing
    THEN Raise("KeyError", "'status'", None)
    ELSE IF ai_result.status.t = "list"
    THEN Raise("TypeError", "unhashable type: 'list'", None)
    ELSE AiResult(rule, ai_result.status,
                  IF ai_result.details = Missing
                  THEN Text("AI validation completed") ELSE ai_result.details,
                  IF ai_result.confidence_score = Missing
                  THEN Text("medium") ELSE ai_result.confidence_score)

\* the except clause of _validate_ai_assisted_rule
AiAssistedExcept(rule, e) ==
    Return(ValidationResult(rule, WARNING, Prefixed("Error in AI validation: ", e),
                            Text("low")))

\* the try statement of _validate_ai_assisted_rule, r being the outcome of
\* validate_with_ai
AiAssistedTry(rule, r) ==
    IF r.raised THEN AiAssistedExcept(rule, r)
    ELSE IF AiMapping(rule, r.val).raised
         THEN AiAssistedExcept(rule, AiMapping(rule, r.val))
         ELSE AiMapping(rule, r.val)

\* ValidationEngine._validate_ai_assisted_rule
_validate_ai_assisted_rule(rule, document_data, api) ==
    AiAssistedTry(rule, validate_with_ai(rule.text, document_data, api))

CODABLE == "codable"
AI_ASSISTED == "ai_assisted"

\* ValidationEngine._validate_against_rule
_validate_against_rule(rule, document_data, api) ==
    IF rule.type = CODABLE
    THEN _validate_codable_rule(rule, document_data)
    ELSE _validate_ai_assisted_rule(rule, document_data, api)

\* a resolver that looks at the warnings first
_determine_overall_status_warnings_first(passed, failed, warnings) ==
    IF warnings > 0 THEN WARNING
    ELSE IF failed > 0 THEN FAIL
    ELSE PASS

\* ValidationEngine._determine_overall_status
_determine_overall_status(passed, failed, warnings) ==
    IF failed > 0 THEN FAIL
    ELSE IF warnings > 0 THEN WARNING
    ELSE PASS


---------------------------------------------------------------------------
(* The rule store and the audit log *)

Rule(id, rule_id, source, text, type, logic) ==
    [id |-> id, rule_id |-> rule_id, source |-> source, text |-> text,
     type |-> type, logic |-> logic]

\* the sources of the "LC" domain
LCSources == {"UCP600", "ISBP", "eUCP"}

\* rule_filters: None, or a dict with the keys it has
Filters(source, domain) == [t |-> "dict", source |-> source, domain |-> domain]
FiltersTruthy(filters) ==
    filters.t = "dict" /\ (filters.source # Missing \/ filters.domain # Missing)

\* a selection in which either filter is enough
_get_applicable_rules_either(table, filters) ==
    LET Keep(r) ==
            \/ ~FiltersTruthy(filters)
            \/ filters.source # Missing /\ r.source = filters.source.x
            \/ filters.domain = Text("LC") /\ r.source \in LCSources
    IN  SelectSeq(table, Keep)

\* ValidationEngine._get_applicable_rules: the rows of table that pass the
\* filters given, in the table's order
_get_applicable_rules(table, filters) ==
    LET Keep(r) ==
            \/ ~FiltersTruthy(filters)
            \/ /\ filters.source # Missing => r.source = filters.source.x
               /\ (filters.domain # Missing /\ filters.domain = Text("LC"))
                      => r.source \in LCSources
    IN  SelectSeq(table, Keep)

\* A timestamp: the minute it lies in (date, hour and minute), the second
\* of that minute and the microsecond of that second.
Time(minute, second, micro) == [minute |-> minute, second |-> second, micro |-> micro]
TimeLess(a, b) ==
    \/ a.minute < b.minute
    \/ a.minute = b.minute /\ a.second < b.second
    \/ a.minute = b.minute /\ a.second = b.second /\ a.micro < b.micro

\* a row of the validations table; the id is the table's next key and the
\* timestamp the server's time of the insert
Validation(table, rule_id, document_id, result, at) ==
    [id |-> Len(table) + 1, rule_id |-> rule_id, document_id |-> document_id,
     status |-> result.status, details |-> result.details,
     confidence_score |-> result.confidence_score, timestamp |-> at]

\* a store that keeps one record per rule and document, overwriting it
_store_validation_result_upsert(table, rule_id, document_id, result, at, commit_ok) ==
    LET same == {k \in 1..Len(table) : /\ table[k].rule_id = rule_id
                                       /\ table[k].document_id = document_id}
    IN  IF ~commit_ok THEN Return(table)
        ELSE IF same = {}
        THEN Return(Append(table, Validation(table, rule_id, document_id, result, at)))
        ELSE LET k == CHOOSE k \in same : TRUE
             IN  Return([table EXCEPT ![k] =
                     [Validation(table, rule_id, document_id, result, at)
                         EXCEPT !.id = table[k].id]])

\* a store whose failed commit is not caught
_store_validation_result_raise(table, rule_id, document_id, result, at, commit_ok) ==
    IF commit_ok
    THEN Return(Append(table, Validation(table, rule_id, document_id, result, at)))
    ELSE Raise("OperationalError", "could not commit", None)

\* a store whose failed commit rolls back the records written before it
_store_validation_result_wipe(table, rule_id, document_id, result, at, commit_ok) ==
    IF commit_ok
    THEN Return(Append(table, Validation(table, rule_id, document_id, result, at)))
    ELSE Return(<<>>)

\* ValidationEngine._store_validation_result: add and commit; a commit that
\* fails is rolled back and the exception swallowed
_store_validation_result(table, rule_id, document_id, result, at, commit_ok) ==
    IF commit_ok
    THEN Return(Append(table, Validation(table, rule_id, document_id, result, at)))
    ELSE Return(table)

---------------------------------------------------------------------------
(* POST /validate/ and POST /validate/quick *)

MaxValidations == 2

NoResponse == [status_code |-> 0]
NoOracleCall == Return(None)
Idle == [pc |-> "idle"]
\* A request that was answered leaves nothing behind in the server: the
\* state holds its frame and its response until the next step of anything.
Forget(r) == IF r.pc = "done" THEN Idle ELSE r

\* the response the endpoint builds from validate_document's result
ResponseBody(endpoint, report) ==
    IF endpoint = "quick"
    THEN [document_id |-> report.document_id,
          overall_status |-> report.overall_status,
          summary |-> [total_rules |-> report.total_rules_checked,
                       passed |-> report.passed,
                       failed |-> report.failed,
                       warnings |-> report.warnings],
          timestamp |-> report.timestamp]
    ELSE report

\* the frame of no second request
NoPeer == [run |-> Idle, response |-> NoResponse]

\* What the environment does to a request before the loop: LLMClassifier()
\* builds the OpenAI client, which raises when no API key is configured,
\* and the query of the rule store raises when the store is unreachable.
ClientError ==
    Raise("OpenAIError", "The api_key client option must be set", None)
StoreError == Raise("OperationalError", "could not connect to server", None)
Ok == Return(None)
ClientOutcomes == {Ok, ClientError}
QueryOutcomes == {Ok, StoreError}

\* the except clause of the two endpoints
EndpointExcept(e) ==
    [status_code |-> 500, detail |-> Prefixed("Error during validation: ", e)]

\* the run of a request whose rules were selected
Started(endpoint, document_id, document_data, selected) ==
    [pc |-> "loop", endpoint |-> endpoint,
     document_id |-> document_id, document_data |-> document_data,
     rules |-> selected, i |-> 1, validation_results |-> <<>>,
     passed |-> 0, failed |-> 0, warnings |-> 0,
     first |-> Len(validations), commits |-> <<>>, apis |-> <<>>]

\* the records a run has yet to write
Unwritten(r) == IF r.pc = "loop" THEN Len(r.rules) - Len(r.commits) ELSE 0

\* The endpoint up to validate_document's loop: the engine is constructed
\* (client), the rules are selected (query).  commits and apis record what
\* the environment did to each rule of the run, and first the length of
\* the audit log when the run began.
Request(endpoint, document_id, document_data, rule_filters, client, query) ==
    /\ run.pc \in {"idle", "done"}
    /\ IF client.raised \/ query.raised
       THEN /\ run' = Idle
            /\ response' = EndpointExcept(IF client.raised THEN client ELSE query)
       ELSE /\ Len(validations) + Unwritten(peer.run)
                   + Len(_get_applicable_rules(rules, rule_filters)) <= MaxValidations
            /\ run' = Started(endpoint, document_id, document_data,
                              _get_applicable_rules(rules, rule_filters))
            /\ response' = NoResponse
    /\ history' = NoResponse
    /\ UNCHANGED <<rules, validations, now, call, peer>>

\* a loop that puts each result in front of the earlier ones
LoopTurn_prepend(r, st, api, commit_ok) ==
    IF r.raised \/ st.raised
    THEN /\ run' = [run EXCEPT !.pc = "done"]
         /\ response' = [status_code |-> 500]
         /\ UNCHANGED validations
    ELSE /\ validations' = st.val
         /\ run' = [run EXCEPT
                !.i = @ + 1,
                !.passed = IF r.val.status = PASS THEN @ + 1 ELSE @,
                !.failed = IF r.val.status = FAIL THEN @ + 1 ELSE @,
                !.warnings = IF r.val.status \notin {PASS, FAIL} THEN @ + 1 ELSE @,
                !.validation_results = <<r.val>> \o @,
                !.commits = Append(@, commit_ok),
                !.apis = Append(@, api)]
         /\ UNCHANGED response

\* one turn of validate_document's loop: the rule was evaluated to r and
\* the store of its result gave st; the result is counted.  An exception
\* that leaves validate_document is answered by the endpoint with status 500.
LoopTurn(r, st, api, commit_ok) ==
    IF r.raised \/ st.raised
    THEN /\ run' = [run EXCEPT !.pc = "done"]
         /\ response' = [status_code |-> 500]
         /\ UNCHANGED validations
    ELSE /\ validations' = st.val
         /\ run' = [run EXCEPT
                !.i = @ + 1,
                !.passed = IF r.val.status = PASS THEN @ + 1 ELSE @,
                !.failed = IF r.val.status = FAIL THEN @ + 1 ELSE @,
                !.warnings = IF r.val.status \notin {PASS, FAIL} THEN @ + 1 ELSE @,
                !.validation_results = Append(@, r.val),
                !.commits = Append(@, commit_ok),
                !.apis = Append(@, api)]
         /\ UNCHANGED response

StoreResult(rule, r, commit_ok) ==
    IF r.raised THEN r
    ELSE _store_validation_result(validations, rule.id, run.document_id, r.val, now,
                                  commit_ok)

EvaluateAndStore(rule, r, api, commit_ok) ==
    LoopTurn(r, StoreResult(rule, r, commit_ok), api, commit_ok)

LoopStep(api, commit_ok) ==
    /\ run.pc = "loop"
    /\ run.i <= Len(run.rules)
    /\ EvaluateAndStore(run.rules[run.i],
                        _validate_against_rule(run.rules[run.i], run.document_data, api),
                        api, commit_ok)
    /\ history' = NoResponse
    /\ UNCHANGED <<rules, now, call, peer>>

\* a report that counts a warning as passed as well
Report_warnings_passed(r, at) ==
    [document_id |-> r.document_id,
     overall_status |-> _determine_overall_status(r.passed, r.failed, r.warnings),
     total_rules_checked |-> Len(r.rules),
     passed |-> r.passed + r.warnings, failed |-> r.failed, warnings |-> r.warnings,
     results |-> r.validation_results,
     timestamp |-> at]

\* the ValidationResponse validate_document returns
Report(r, at) ==
    [document_id |-> r.document_id,
     overall_status |-> _determine_overall_status(r.passed, r.failed, r.warnings),
     total_rules_checked |-> Len(r.rules),
     passed |-> r.passed, failed |-> r.failed, warnings |-> r.warnings,
     results |-> r.validation_results,
     timestamp |-> at]

\* validate_document after its loop, and the endpoint's answer
Respond ==
    /\ run.pc = "loop"
    /\ run.i > Len(run.rules)
    /\ run' = [run EXCEPT !.pc = "done"]
    /\ response' = [status_code |-> 200,
                    body |-> ResponseBody(run.endpoint, Report(run, now))]
    /\ history' = NoResponse
    /\ UNCHANGED <<rules, validations, now, call, peer>>


---------------------------------------------------------------------------
(* GET /validate/history/{document_id} *)

HistoryTextLimit == 100

\* validation.timestamp.isoformat()[:19]: of "YYYY-MM-DDTHH:MM:SS.ffffff"
\* the first 19 characters, which end with the seconds
TimestampKey(ts) == [minute |-> ts.minute, second |-> ts.second]

\* the row of table whose internal id is id (the join with Rule)
RuleOf(table, id) == table[CHOOSE k \in 1..Len(table) : table[k].id = id]
HasRule(table, id) == \E k \in 1..Len(table) : table[k].id = id

\* an entry that shows the whole text of the rule
HistoryEntry_whole_text(validation, rule) ==
    [rule_id |-> rule.rule_id,
     rule_text |-> rule.text,
     status |-> validation.status,
     details |-> validation.details,
     confidence_score |-> validation.confidence_score]

\* an entry that leaves the record's confidence out
HistoryEntry_no_confidence(validation, rule) ==
    [rule_id |-> rule.rule_id,
     rule_text |-> Shorten(rule.text, HistoryTextLimit),
     status |-> validation.status,
     details |-> validation.details,
     confidence_score |-> None]

HistoryEntry(validation, rule) ==
    [rule_id |-> rule.rule_id,
     rule_text |-> Shorten(rule.text, HistoryTextLimit),
     status |-> validation.status,
     details |-> validation.details,
     confidence_score |-> validation.confidence_score]

\* the position in sessions of the session with this key, 0 if there is none
SessionIndex(sessions, key) ==
    IF \E k \in 1..Len(sessions) : TimestampKey(sessions[k].timestamp) = key
    THEN CHOOSE k \in 1..Len(sessions) : TimestampKey(sessions[k].timestamp) = key
    ELSE 0

RECURSIVE GroupSessions(_, _, _)
\* the loop over the rows: the sessions after rows[1..n], in the order in
\* which their keys were first seen
GroupSessions(rows, ruleTable, n) ==
    IF n = 0 THEN <<>>
    ELSE LET sessions == GroupSessions(rows, ruleTable, n - 1)
             validation == rows[n]
             entry == HistoryEntry(validation, RuleOf(ruleTable, validation.rule_id))
             k == SessionIndex(sessions, TimestampKey(validation.timestamp))
         IN  IF k = 0
             THEN Append(sessions, [timestamp |-> validation.timestamp,
                                    results |-> <<entry>>])
             ELSE [sessions EXCEPT ![k].results = Append(@, entry)]

\* the rows of the query: those of the document whose rule exists
Matching(document_id) ==
    {k \in 1..Len(validations) :
        /\ validations[k].document_id = document_id
        /\ HasRule(rules, validations[k].rule_id)}

\* the orders ORDER BY timestamp DESC may return the rows in: rows of equal
\* timestamp come in any order
QueryOrders(document_id) ==
    LET ids == Matching(document_id)
        n == Cardinality(ids)
    IN  {o \in [1..n -> ids] :
            /\ \A a, b \in 1..n : a # b => o[a] # o[b]
            /\ \A a, b \in 1..n :
                   a < b => ~TimeLess(validations[o[a]].timestamp,
                                      validations[o[b]].timestamp)}

\* a handler that answers every failure of the query as "not found"
HistoryExcept_not_found(document_id, e) ==
    [request |-> document_id, status_code |-> 404,
     detail |-> "No validation history found for this document"]

\* the except clauses of get_validation_history: an HTTPException is
\* raised again, anything else is answered with status 500; request is the
\* document id asked for
HistoryExcept(document_id, e) ==
    [request |-> document_id, status_code |-> 500,
     detail |-> Prefixed("Error retrieving validation history: ", e)]

get_validation_history(document_id, query) ==
    /\ IF query.raised
       THEN history' = HistoryExcept(document_id, query)
       ELSE \E o \in QueryOrders(document_id) :
           LET rows == [k \in 1..Len(o) |-> validations[o[k]]]
               sessions == GroupSessions(rows, rules, Len(rows))
           IN  history' =
                   IF Len(rows) = 0
                   THEN [request |-> document_id, status_code |-> 404,
                         detail |-> "No validation history found for this document"]
                   ELSE [request |-> document_id,
                         status_code |-> 200, document_id |-> document_id,
                         total_sessions |-> Len(sessions), sessions |-> sessions]
    /\ run' = Forget(run)
    /\ response' = NoResponse
    /\ UNCHANGED <<rules, validations, now, call, peer>>

---------------------------------------------------------------------------
(* The environment: the clock, the store's content, the requests *)

\* the instants the clock passes through
TimePoints ==
    {Time(0, 5, 250000), Time(0, 40, 0), Time(1, 5, 250000)}

Tick ==
    /\ \E t \in TimePoints : TimeLess(now, t) /\ now' = t
    /\ history' = NoResponse
    /\ run' = Forget(run)
    /\ response' = NoResponse
    /\ UNCHANGED <<rules, validations, call, peer>>

SeedRules ==
    << Rule(1, "UCP600-29", "UCP600", RuleText("Expiry Date and Place", 236),
            CODABLE, Logic(<<PAmount, " and ", PExpiry>>)),
       Rule(2, "TEST-AI-001", "TEST", RuleText("Documents must appear authentic", 54),
            AI_ASSISTED, None) >>

\* strings, by their characters
S_2024_12_15 == Str(<<"2", "0", "2", "4", "-", "1", "2", "-", "1", "5">>)
S_2024_12_20Z ==
    Str(<<"2", "0", "2", "4", "-", "1", "2", "-", "2", "0", "T",
          "0", "0", ":", "0", "0", ":", "0", "0", "Z">>)
S_2024_12_31 == Str(<<"2", "0", "2", "4", "-", "1", "2", "-", "3", "1">>)
S_31_12 == Str(<<"3", "1", "/", "1", "2">>)
S_100000_00 == Str(<<"1", "0", "0", "0", "0", "0", ".", "0", "0">>)
S_minus50 == Str(<<"-", "5", "0">>)
S_0 == Str(<<"0">>)
S_abc == Str(<<"a", "b", "c">>)
S_USD == Str(<<"U", "S", "D">>)
S_XYZ == Str(<<"X", "Y", "Z">>)
S_empty == Str(<<>>)

Document(expiry_date, shipment_date, presentation_date, amount, currency) ==
    [expiry_date |-> expiry_date, shipment_date |-> shipment_date,
     presentation_date |-> presentation_date, amount |-> amount,
     currency |-> currency]

\* the submissions to the running engine: a document id and its data
Submission(document_id, document_data) ==
    [document_id |-> document_id, document_data |-> document_data]
Submissions ==
    {Submission("LC-001",
         Document(S_2024_12_31, S_2024_12_15, S_2024_12_20Z, S_100000_00, S_USD)),
     Submission("LC-002",
         Document(S_31_12, S_2024_12_15, None, S_minus50, S_XYZ))}

DocumentIds == {"LC-001", "LC-002"}

EngineFilters ==
    {None, Filters(Text("TEST"), Missing), Filters(Missing, Text("LC")),
     Filters(Text("TEST"), Text("LC"))}

\* what the oracle does in the running engine
EngineApis ==
    {ApiContent(Dict(Text("pass"), Text("Documents appear authentic"), Text("high"))),
     ApiError("Connection error.")}

\* a request to an endpoint: any submission with any filters when the
\* engine is constructed and the store answers; when one of them fails the
\* answer does not depend on the request
Requests(endpoint) ==
    \/ \E s \in Submissions, f \in EngineFilters :
           Request(endpoint, s.document_id, s.document_data, f, Ok, Ok)
    \/ \E client \in ClientOutcomes, query \in QueryOutcomes :
           /\ client.raised \/ query.raised
           /\ Request(endpoint, "LC-001", Document(None, None, None, None, None),
                      None, client, query)

validate_document == Requests("validate")

quick_validate == Requests("quick")

\* a request whose body is no ValidationRequest is answered by the
\* framework, before the endpoint runs
malformed_request ==
    /\ run.pc \in {"idle", "done"}
    /\ run' = Idle
    /\ response' = [status_code |-> 422, detail |-> Text("Field required")]
    /\ history' = NoResponse
    /\ UNCHANGED <<rules, validations, now, call, peer>>

validate_rule ==
    \E commit_ok \in BOOLEAN :
        \E api \in (IF run.pc = "loop" /\ run.i <= Len(run.rules)
                       /\ run.rules[run.i].type # CODABLE
                    THEN EngineApis ELSE {NoOracleCall}) :
            LoopStep(api, commit_ok)

history_request ==
    \E id \in DocumentIds, query \in QueryOutcomes : get_validation_history(id, query)

Init ==
    /\ rules = SeedRules
    /\ validations = <<>>
    /\ now = Time(0, 5, 250000)
    /\ run = Idle
    /\ response = NoResponse
    /\ history = NoResponse
    /\ call = [op |-> "none"]
    /\ peer = NoPeer

Next ==
    \/ validate_document
    \/ quick_validate
    \/ malformed_request
    \/ validate_rule
    \/ Respond
    \/ history_request
    \/ Tick

\* Two requests in flight.  Each worker runs one request at a time, the
\* requests of two workers share only the store, and every commit is one
\* step: the server turns from the request whose frame is in run and
\* response to the other one's, kept in peer, between any two steps.
Switch ==
    /\ run' = peer.run
    /\ response' = peer.response
    /\ peer' = [run |-> run, response |-> response]
    /\ history' = NoResponse
    /\ UNCHANGED <<rules, validations, now, call>>

\* each of the two workers takes one request
NextConcurrent ==
    \/ run.pc = "idle" /\ response = NoResponse /\ validate_document
    \/ validate_rule
    \/ Respond
    \/ Switch

SpecConcurrent == Init /\ [][NextConcurrent]_vars

\* The request of test_validation_error_handling: an empty document id and
\* an empty document.  ValidationRequest asks for a str and a dict, which
\* both are, so the framework passes the request on to the endpoint.
EmptySubmission == Submission("", Document(None, None, None, None, None))

empty_request ==
    \E f \in EngineFilters, client \in ClientOutcomes, query \in QueryOutcomes :
        Request("validate", EmptySubmission.document_id,
                EmptySubmission.document_data, f, client, query)

NextEmpty ==
    \/ empty_request
    \/ validate_rule
    \/ Respond
    \/ Tick

SpecEmpty == Init /\ [][NextEmpty]_vars

Spec == Init /\ [][Next]_vars

---------------------------------------------------------------------------
(* The rule store's endpoints: POST /rules/upload, GET, PUT and DELETE     *)
(* /rules/{rule_id}, and the seeding script.  The server answers one       *)
(* request at a time; call holds the request that was answered last and    *)
(* response its answer.                                                    *)

\* db.query(Rule).filter(Rule.rule_id == rule_id).first(): the position of
\* the row in table, 0 when there is none
FirstByRuleId(table, rule_id) ==
    IF \E k \in 1..Len(table) : table[k].rule_id = rule_id
    THEN CHOOSE k \in 1..Len(table) :
             /\ table[k].rule_id = rule_id
             /\ \A j \in 1..(k - 1) : table[j].rule_id # rule_id
    ELSE 0

Stored(table, rule_id) == FirstByRuleId(table, rule_id) # 0

RuleNotFound == [status_code |-> 404, detail |-> "Rule not found"]

\* a query or a commit that raises outside every try block is answered by
\* the framework
InternalServerError == [status_code |-> 500, detail |-> "Internal Server Error"]

\* the constraint of the table rules on its rows: rule_id is unique
IntegrityError(text) == Raise("IntegrityError", text, None)
RuleConstraints(table) ==
    IF \E j, k \in 1..Len(table) : j # k /\ table[j].rule_id = table[k].rule_id
    THEN IntegrityError("duplicate key value violates unique constraint")
    ELSE Ok

\* db.commit() of a session whose changes turn the table into table: the
\* store is reached or not, and when it is it checks its constraints
Commit(table, store) == IF store.raised THEN store ELSE RuleConstraints(table)

\* the primary key of a new row: the store numbers the rows upwards
MaxRuleId == 2
LastId(table) ==
    IF table = <<>> THEN 0
    ELSE CHOOSE n \in {table[k].id : k \in 1..Len(table)} :
             \A k \in 1..Len(table) : table[k].id <= n

\* GET /rules/{rule_id}
get_rule(rule_id, query) ==
    /\ run.pc \in {"idle", "done"}
    /\ response' =
           IF query.raised THEN InternalServerError
           ELSE IF ~Stored(rules, rule_id) THEN RuleNotFound
           ELSE [status_code |-> 200, body |-> rules[FirstByRuleId(rules, rule_id)]]
    /\ call' = [op |-> "get_rule", rule_id |-> rule_id, query |-> query]
    /\ run' = Forget(run)
    /\ history' = NoResponse
    /\ UNCHANGED <<rules, validations, now, peer>>

\* RuleUpdate: a field that was not sent is Missing (exclude_unset), a
\* field sent as null is None
RuleUpdate(text, type, logic) == [text |-> text, type |-> type, logic |-> logic]

\* db.commit() of an update: the columns text and type are not null
UpdateCommit(rule_update, store) ==
    IF store.raised THEN store
    ELSE IF rule_update.text = None \/ rule_update.type = None
    THEN IntegrityError("null value violates not-null constraint")
    ELSE Ok

\* the loop of setattr over the fields that were sent, for an update that
\* the store accepts
SetFields(rule, rule_update) ==
    [rule EXCEPT
        !.text = IF rule_update.text = Missing THEN @ ELSE rule_update.text,
        !.type = IF rule_update.type = Missing THEN @
                 ELSE IF rule_update.type = Text("codable") THEN CODABLE
                 ELSE AI_ASSISTED,
        !.logic = IF rule_update.logic = Missing THEN @ ELSE rule_update.logic]

\* PUT /rules/{rule_id}
update_rule(rule_id, rule_update, query, store) ==
    LET k == FirstByRuleId(rules, rule_id)
        table == [rules EXCEPT ![k] = SetFields(@, rule_update)]
    IN  /\ run.pc \in {"idle", "done"}
        /\ IF query.raised
           THEN response' = InternalServerError /\ UNCHANGED rules
           ELSE IF k = 0
           THEN response' = RuleNotFound /\ UNCHANGED rules
           ELSE IF UpdateCommit(rule_update, store).raised
           THEN /\ response' = [status_code |-> 500,
                                detail |-> Prefixed("Error updating rule: ",
                                                    UpdateCommit(rule_update, store))]
                /\ UNCHANGED rules
           ELSE /\ rules' = table
                /\ response' = [status_code |-> 200, body |-> table[k]]
        /\ call' = [op |-> "update_rule", rule_id |-> rule_id, query |-> query,
                    at |-> now]
        /\ run' = Forget(run)
        /\ history' = NoResponse
        /\ UNCHANGED <<validations, now, peer>>

\* a delete that leaves the row in the table
Without_nothing(table, k) == table

\* table without its k-th row
Without(table, k) == SubSeq(table, 1, k - 1) \o SubSeq(table, k + 1, Len(table))

\* db.delete(rule) and db.commit(): the session first sets rule_id of the
\* rule's validations to null, which the column does not allow
DeleteCommit(rule, store) ==
    IF store.raised THEN store
    ELSE IF \E j \in 1..Len(validations) : validations[j].rule_id = rule.id
    THEN IntegrityError("null value violates not-null constraint")
    ELSE Ok

\* DELETE /rules/{rule_id}
delete_rule(rule_id, query, store) ==
    LET k == FirstByRuleId(rules, rule_id)
    IN  /\ run.pc \in {"idle", "done"}
        /\ IF query.raised
           THEN response' = InternalServerError /\ UNCHANGED rules
           ELSE IF k = 0
           THEN response' = RuleNotFound /\ UNCHANGED rules
           ELSE IF DeleteCommit(rules[k], store).raised
           THEN /\ response' = [status_code |-> 500,
                                detail |-> Prefixed("Error deleting rule: ",
                                                    DeleteCommit(rules[k], store))]
                /\ UNCHANGED rules
           ELSE /\ rules' = Without(rules, k)
                /\ response' = [status_code |-> 200, message |-> "deleted successfully",
                                rule_id |-> rule_id]
        /\ call' = [op |-> "delete_rule", rule_id |-> rule_id, query |-> query]
        /\ run' = Forget(run)
        /\ history' = NoResponse
        /\ UNCHANGED <<validations, now, peer>>

\* a rule as the parser returns it; type and logic are set by the
\* classification
ParsedRule(rule_id, source, text) == [rule_id |-> rule_id, source |-> source, text |-> text]

\* classify_rule's result: the reply of the oracle as parsed from JSON, a
\* dict with or without the key "type", or the fallback when the call or
\* the parsing raises
Classification(type, logic) == [type |-> type, logic |-> logic]
FallbackClassification == Classification(Text("ai_assisted"), None)

\* LLMClassifier.batch_classify_rules: classification["type"] raises
\* KeyError when the reply has no such key
RECURSIVE batch_classify_rules(_, _)
batch_classify_rules(parsed, classifications) ==
    IF parsed = <<>> THEN Return(<<>>)
    ELSE IF Head(classifications).type = Missing
    THEN Raise("KeyError", "'type'", None)
    ELSE LET rest == batch_classify_rules(Tail(parsed), Tail(classifications))
         IN  IF rest.raised THEN rest
             ELSE Return(<<[rule_id |-> Head(parsed).rule_id,
                            source |-> Head(parsed).source,
                            text |-> Head(parsed).text,
                            type |-> Head(classifications).type,
                            logic |-> Head(classifications).logic]>> \o rest.val)

\* The loop that stores the classified rules.  The session does not flush
\* before a query (autoflush=False), so the check for an existing rule sees
\* the rows of the table and none of the rules added before in the loop.
RECURSIVE CreatedRules(_, _, _)
CreatedRules(table, classified, id) ==
    IF classified = <<>> THEN <<>>
    ELSE LET rule_data == Head(classified)
         IN  IF Stored(table, rule_data.rule_id)
             THEN CreatedRules(table, Tail(classified), id)
             ELSE <<Rule(id, rule_data.rule_id, rule_data.source, rule_data.text,
                         IF rule_data.type = Text("codable")
                         THEN CODABLE ELSE AI_ASSISTED,
                         rule_data.logic)>>
                  \o CreatedRules(table, Tail(classified), id + 1)

\* an HTTPException raised inside the try block, by the text str() gives
\* of it: the status code, ": " and the detail
HTTPException(status_code, detail) == Raise("HTTPException", status_code, detail)

\* the try block of upload_pdf_rules: the rules it created, or what it raised
UploadTry(client, valid_pdf, parsed, classifications, store) ==
    IF client.raised THEN client
    ELSE IF ~valid_pdf THEN HTTPException("400: ", "Invalid PDF file")
    ELSE IF parsed = <<>> THEN HTTPException("400: ", "No rules found in PDF")
    ELSE IF batch_classify_rules(parsed, classifications).raised
    THEN batch_classify_rules(parsed, classifications)
    ELSE LET created == CreatedRules(rules,
                            batch_classify_rules(parsed, classifications).val,
                            LastId(rules) + 1)
         IN  IF Commit(rules \o created, store).raised
             THEN Commit(rules \o created, store)
             ELSE Return(created)

\* POST /rules/upload
upload_pdf_rules(is_pdf, client, valid_pdf, parsed, classifications, store) ==
    LET try == UploadTry(client, valid_pdf, parsed, classifications, store)
    IN  /\ run.pc \in {"idle", "done"}
        /\ IF ~is_pdf
           THEN /\ response' = [status_code |-> 400, detail |-> "File must be a PDF"]
                /\ UNCHANGED rules
           ELSE IF try.raised
           THEN /\ response' = [status_code |-> 500,
                                detail |-> Prefixed("Error processing PDF: ", try)]
                /\ UNCHANGED rules
           ELSE /\ LastId(rules \o try.val) <= MaxRuleId
                /\ rules' = rules \o try.val
                /\ response' = [status_code |-> 200,
                                rules_created |-> Len(try.val), rules |-> try.val]
        /\ call' = [op |-> "upload_pdf_rules", parsed |-> parsed,
                    ok |-> is_pdf /\ ~client.raised /\ valid_pdf /\ ~store.raised
                           /\ ~batch_classify_rules(parsed, classifications).raised]
        /\ run' = Forget(run)
        /\ history' = NoResponse
        /\ UNCHANGED <<validations, now, peer>>

\* SAMPLE_RULES: of the eight rules an AI-assisted and a codable one
SampleRules ==
    << Rule(1, "UCP600-14a", "UCP600",
            RuleText("Standard for Examination of Documents", 274), AI_ASSISTED, None),
       Rule(2, "UCP600-29", "UCP600",
            RuleText("Expiry Date and Place for Presentation", 232), CODABLE,
            Logic(<<"presentation_date <= expiry_date">>)) >>

\* scripts/seed_rules.py: nothing is done to a store that holds a rule
seed_database(store) ==
    /\ run.pc \in {"idle", "done"}
    /\ rules' = IF Len(rules) > 0 \/ Commit(SampleRules, store).raised
                THEN rules ELSE SampleRules
    /\ call' = [op |-> "seed_database"]
    /\ response' = NoResponse
    /\ run' = Forget(run)
    /\ history' = NoResponse
    /\ UNCHANGED <<validations, now, peer>>

\* the requests to the rule store
RequestedRuleIds == {"UCP600-14a", "UCP600-29", "UCP600-99"}
Parsed14a == ParsedRule("UCP600-14a", "UCP600", RuleText("Standard for Examination", 120))
Parsed14a_again == ParsedRule("UCP600-14a", "UCP600", RuleText("Examination Period", 80))
Parsed29 == ParsedRule("UCP600-29", "UCP600", RuleText("Expiry Date", 60))
ParsedBatches ==
    {<<>>, <<Parsed14a>>, <<Parsed29, Parsed14a>>, <<Parsed14a, Parsed14a_again>>}
Classifications ==
    {Classification(Text("codable"), Logic(<<PAmount>>)),
     FallbackClassification,
     Classification(Text("ai_assisted"), Logic(<<PAmount>>)),
     Classification(Missing, None)}
\* updates: of no field, of the type, of the logic, of both, and with
\* text or type sent as null
RuleUpdates ==
    {RuleUpdate(Missing, Missing, Missing),
     RuleUpdate(Missing, Text("codable"), Missing),
     RuleUpdate(Missing, Text("ai_assisted"), Missing),
     RuleUpdate(Missing, Missing, Logic(<<PAmount>>)),
     RuleUpdate(Missing, Missing, None),
     RuleUpdate(Missing, Text("ai_assisted"), None),
     RuleUpdate(None, Missing, Missing),
     RuleUpdate(Missing, None, Missing)}

upload_request ==
    \/ \E parsed \in ParsedBatches :
           \E classifications \in [1..Len(parsed) -> Classifications] :
               upload_pdf_rules(TRUE, Ok, TRUE, parsed, classifications, Ok)
    \/ \E is_pdf \in BOOLEAN, client \in ClientOutcomes, valid_pdf \in BOOLEAN,
          store \in QueryOutcomes :
           /\ ~is_pdf \/ client.raised \/ ~valid_pdf \/ store.raised
           /\ upload_pdf_rules(is_pdf, client, valid_pdf, <<Parsed14a>>,
                               <<FallbackClassification>>, store)

seed_script == \E store \in QueryOutcomes : seed_database(store)

get_request == \E rule_id \in RequestedRuleIds, query \in QueryOutcomes : get_rule(rule_id, query)

update_request ==
    \/ \E rule_id \in RequestedRuleIds, rule_update \in RuleUpdates :
           update_rule(rule_id, rule_update, Ok, Ok)
    \/ \E rule_id \in RequestedRuleIds, query \in QueryOutcomes, store \in QueryOutcomes :
           /\ query.raised # store.raised
           /\ update_rule(rule_id, RuleUpdate(Missing, Missing, None), query, store)

delete_request ==
    \E rule_id \in RequestedRuleIds, query \in QueryOutcomes, store \in QueryOutcomes :
        /\ ~(query.raised /\ store.raised)
        /\ delete_rule(rule_id, query, store)

\* the store before the seeding script or an upload has run
InitRules ==
    /\ rules = <<>>
    /\ validations = <<>>
    /\ now = Time(0, 5, 250000)
    /\ run = Idle
    /\ response = NoResponse
    /\ history = NoResponse
    /\ call = [op |-> "none"]
    /\ peer = NoPeer

NextRules ==
    \/ seed_script
    \/ upload_request
    \/ get_request
    \/ update_request
    \/ delete_request

SpecRules == InitRules /\ [][NextRules]_vars

\* Validations, updates of rule texts and histories, one request at a time,
\* on the store of the tests: the new texts are one of up to 100 characters
\* and one of 101
NewTexts ==
    {RuleText("Expiry Date", 60),
     RuleText("Documents must appear on their face to be authentic", 101)}

text_update ==
    \E text \in NewTexts :
        update_rule("UCP600-29", RuleUpdate(text, Missing, Missing), Ok, Ok)

text_validate ==
    \E f \in {None, Filters(Text("TEST"), Missing)} :
        Request("validate", "LC-001",
                Document(S_2024_12_31, S_2024_12_15, S_2024_12_20Z, S_100000_00, S_USD),
                f, Ok, Ok)

NextText ==
    \/ text_validate
    \/ validate_rule
    \/ Respond
    \/ text_update
    \/ history_request
    \/ Tick

SpecText == Init /\ [][NextText]_vars


---------------------------------------------------------------------------
(* PDFParser: rules from the text of a document.  A text is a sequence of  *)
(* characters.  The alphabet is the ASCII letters, the digits, the blank,  *)
(* the line feed, "-" and ".": \s is the blank, \d a digit, [a-z] under    *)
(* IGNORECASE an ASCII letter, and of the three dashes of the patterns     *)
(* only "-" occurs.                                                        *)

LowerCase == <<"a", "b", "c", "d", "e", "f", "g", "h", "i", "j", "k", "l", "m", "n", "o", "p", "q", "r", "s", "t", "u", "v", "w", "x", "y", "z">>
UpperCase == <<"A", "B", "C", "D", "E", "F", "G", "H", "I", "J", "K", "L", "M", "N", "O", "P", "Q", "R", "S", "T", "U", "V", "W", "X", "Y", "Z">>
IsLetter(c) == \E i \in 1..26 : LowerCase[i] = c \/ UpperCase[i] = c
CharUpper(c) ==
    IF \E i \in 1..26 : LowerCase[i] = c
    THEN UpperCase[CHOOSE i \in 1..26 : LowerCase[i] = c] ELSE c
CharLower(c) ==
    IF \E i \in 1..26 : UpperCase[i] = c
    THEN LowerCase[CHOOSE i \in 1..26 : UpperCase[i] = c] ELSE c
\* str.upper() and str.lower()
upper(s) == [k \in 1..Len(s) |-> CharUpper(s[k])]
lower(s) == [k \in 1..Len(s) |-> CharLower(s[k])]

\* the position of the k-th line feed of text; 0 for k = 0 and the position
\* after the text when it has fewer line feeds
LineFeed(text, k) ==
    LET feeds == {i \in 1..Len(text) : text[i] = "\n"}
    IN  IF k = 0 THEN 0
        ELSE IF k > Cardinality(feeds) THEN Len(text) + 1
        ELSE CHOOSE i \in feeds : Cardinality({j \in feeds : j <= i}) = k

\* text.split('\n'): the pieces between the line feeds, empty ones included
split(text) ==
    [k \in 1..(Cardinality({i \in 1..Len(text) : text[i] = "\n"}) + 1) |->
        SubSeq(text, LineFeed(text, k - 1) + 1, LineFeed(text, k) - 1)]

\* the length of the match of (\d+[a-z]?) at position i of line, 0 when
\* there is none
ArticleLen(line, i) ==
    IF DigitRun(line, i) = 0 THEN 0
    ELSE IF i + DigitRun(line, i) <= Len(line) /\ IsLetter(line[i + DigitRun(line, i)])
    THEN DigitRun(line, i) + 1
    ELSE DigitRun(line, i)

\* line from position i on, without the blanks at its start
AfterBlanks(line, i) == SubSeq(line, i + Blanks(line, i, 1), Len(line))

\* the second group of \s*[-]?\s*(.*?)$ matched against rest
TitleOf(rest) ==
    IF Len(AfterBlanks(rest, 1)) >= 1 /\ AfterBlanks(rest, 1)[1] = "-"
    THEN AfterBlanks(AfterBlanks(rest, 1), 2)
    ELSE AfterBlanks(rest, 1)

\* the dict _match_article_pattern returns for a match
ArticleMatch(article, title) == [article |-> article, title |-> Strip(title)]

\* ^<word>\s*(\d+[a-z]?)\s*[-]?\s*(.*?)$ with least blanks after the word,
\* the case of the word ignored
MatchAfterWord(line, word, least) ==
    IF /\ Len(line) >= Len(word)
       /\ lower(SubSeq(line, 1, Len(word))) = word
       /\ Blanks(line, Len(word) + 1, 1) >= least
       /\ ArticleLen(AfterBlanks(line, Len(word) + 1), 1) >= 1
    THEN ArticleMatch(
             SubSeq(AfterBlanks(line, Len(word) + 1), 1,
                    ArticleLen(AfterBlanks(line, Len(word) + 1), 1)),
             TitleOf(SubSeq(AfterBlanks(line, Len(word) + 1),
                            ArticleLen(AfterBlanks(line, Len(word) + 1), 1) + 1,
                            Len(AfterBlanks(line, Len(word) + 1)))))
    ELSE None

\* ^Article\s+(\d+[a-z]?)\s*[-]?\s*(.*?)$
MatchArticle(line) == MatchAfterWord(line, <<"a", "r", "t", "i", "c", "l", "e">>, 1)

\* ^(\d+[a-z]?)\.\s+(.*?)$
MatchNumbered(line) ==
    IF /\ ArticleLen(line, 1) >= 1
       /\ ArticleLen(line, 1) + 1 <= Len(line)
       /\ line[ArticleLen(line, 1) + 1] = "."
       /\ Blanks(line, ArticleLen(line, 1) + 2, 1) >= 1
    THEN ArticleMatch(SubSeq(line, 1, ArticleLen(line, 1)),
                      AfterBlanks(line, ArticleLen(line, 1) + 2))
    ELSE None

\* ^UCP\s*(\d+[a-z]?)\s*[-]?\s*(.*?)$
MatchUcp(line) == MatchAfterWord(line, <<"u", "c", "p">>, 0)

\* PDFParser._match_article_pattern: the first pattern that matches
_match_article_pattern(line) ==
    IF MatchArticle(line) # None THEN MatchArticle(line)
    ELSE IF MatchNumbered(line) # None THEN MatchNumbered(line)
    ELSE MatchUcp(line)

RECURSIVE JoinWith(_, _)
\* sep.join(lines)
JoinWith(lines, sep) ==
    IF Len(lines) = 0 THEN <<>>
    ELSE IF Len(lines) = 1 THEN lines[1]
    ELSE lines[1] \o sep \o JoinWith(Tail(lines), sep)

\* PDFParser._create_rule_dict
_create_rule_dict(source, article_info, text_lines) ==
    [rule_id |-> upper(source) \o <<"-">> \o article_info.article,
     source |-> source,
     article |-> article_info.article,
     title |-> IF article_info.title # <<>> THEN Str(article_info.title) ELSE None,
     text |-> Strip(JoinWith(text_lines, <<" ">>)),
     type |-> AI_ASSISTED,
     logic |-> None,
     version |-> "1.0"]

\* the rules with that of the current article, when it has text
Flush(st, source) ==
    IF st.current_article # None /\ st.current_text # <<>>
    THEN Append(st.rules, _create_rule_dict(source, st.current_article, st.current_text))
    ELSE st.rules

\* one turn of the loop over the lines
ParseLine(st, line, source, match) ==
    IF line = <<>> THEN st
    ELSE IF match # None
    THEN [rules |-> Flush(st, source), current_article |-> match, current_text |-> <<>>]
    ELSE IF st.current_article # None
    THEN [st EXCEPT !.current_text = Append(@, line)]
    ELSE st

\* the loop over the first n lines
ParseLines(lines, source) ==
    LET F[n \in 0..Len(lines)] ==
            IF n = 0
            THEN [rules |-> <<>>, current_article |-> None, current_text |-> <<>>]
            ELSE ParseLine(F[n - 1], Strip(lines[n]), source,
                           _match_article_pattern(Strip(lines[n])))
    IN  F[Len(lines)]

\* a parser that forgets the article it is reading when the text ends
parse_rules_from_text_no_last(text, source) ==
    ParseLines(split(text), source).rules

\* PDFParser.parse_rules_from_text
parse_rules_from_text(text, source) ==
    Flush(ParseLines(split(text), source), source)

---------------------------------------------------------------------------
(* The engine's functions on drawn inputs: one call per behaviour, the      *)
(* inputs drawn by the initial state and the function applied by an action. *)

MaxCount == 3

Pending == [t |-> "pending"]

\* the logic strings: None, the empty string, a string with none of the
\* four phrases, and for each set of the four phrases a string that holds
\* them, written in the reverse of the order in which they are checked
LogicOf(phrases) ==
    Logic(SelectSeq(<<PAmount, PCurrency, PShipment, PExpiry>>,
                    LAMBDA p : p \in phrases))
LogicPool ==
    {None, Logic(<<>>), Logic(<<"presentation_date <= expiry_date">>)}
        \cup {LogicOf(ps) : ps \in (SUBSET {PExpiry, PShipment, PCurrency, PAmount}) \ {{}}}

\* the logic strings of the rules: of the pool, those of at most one phrase
\* and the one of all four
RuleLogicPool ==
    {l \in LogicPool : l = None \/ Len(l.s) <= 1 \/ Len(l.s) = 4}

DateValues == {None, S_2024_12_15, S_2024_12_31, S_2024_12_20Z, S_31_12}
PresentationValues == {None, S_2024_12_15, S_2024_12_31}
AmountValues == {None, S_empty, S_100000_00, S_minus50, S_0, S_abc, Num(0), List(1)}
CurrencyValues == {None, S_empty, S_USD, S_XYZ}

\* the amounts of the amount check: strings that denote a positive number,
\* strings that denote zero or a negative number, and strings that denote
\* no number
S_0_0 == Str(<<"0", ".", "0">>)
S_minus0 == Str(<<"-", "0">>)
S_plus5 == Str(<<"+", "5">>)
S_point5 == Str(<<".", "5">>)
S_0_01 == Str(<<"0", ".", "0", "1">>)
S_7_blanks == Str(<<" ", "7", " ">>)
S_inf == Str(<<"i", "n", "f">>)
S_minus_inf == Str(<<"-", "I", "n", "f", "i", "n", "i", "t", "y">>)
S_nan == Str(<<"n", "a", "n">>)
S_5x == Str(<<"5", "x">>)
S_blank == Str(<<" ">>)
PositiveStrings == {S_100000_00, S_plus5, S_point5, S_0_01, S_7_blanks, S_inf}
NonPositiveStrings == {S_0, S_0_0, S_minus0, S_minus50, S_minus_inf}
NonNumericStrings == {S_abc, S_empty, S_5x, S_blank, S_nan}
AmountStrings == PositiveStrings \cup NonPositiveStrings \cup NonNumericStrings

\* dates in each format _parse_date accepts: the four strptime formats and
\* ISO-8601 without an offset, with a trailing Z and with an offset
S_15_12_2024 == Str(<<"1", "5", "-", "1", "2", "-", "2", "0", "2", "4">>)
S_12_16_2024 == Str(<<"1", "2", "/", "1", "6", "/", "2", "0", "2", "4">>)
S_2024_12_15_1030 == Str(<<"2", "0", "2", "4", "-", "1", "2", "-", "1", "5", " ", "1", "0", ":", "3", "0", ":", "0", "0">>)
S_2024_12_15T0900 == Str(<<"2", "0", "2", "4", "-", "1", "2", "-", "1", "5", "T", "0", "9", ":", "0", "0", ":", "0", "0">>)
S_2024_12_20T0100_0200 == Str(<<"2", "0", "2", "4", "-", "1", "2", "-", "2", "0", "T", "0", "1", ":", "0", "0", ":", "0", "0", "+", "0", "2", ":", "0", "0">>)
DateStrings ==
    {S_2024_12_15, S_15_12_2024, S_12_16_2024, S_2024_12_15_1030, S_2024_12_15T0900,
     S_2024_12_20Z, S_2024_12_20T0100_0200, S_2024_12_31}

\* logic strings whose first applicable pattern can be the amount one
AmountLogics ==
    {LogicOf({PAmount}), LogicOf({PAmount, PCurrency}), LogicOf({PAmount, PExpiry})}

\* the rule stores of the selection: up to MaxRules rules of these sources
MaxRules == 3
StoreSources == {"UCP600", "ISBP", "eUCP", "TEST"}
StoredRule(k, source) ==
    Rule(k, "RULE-" \o ToString(k), source, RuleText("Rule", 40), AI_ASSISTED, None)
Stores ==
    UNION {{[k \in 1..n |-> StoredRule(k, sources[k])] : sources \in [1..n -> StoreSources]}
               : n \in 0..MaxRules}
\* the filters of a request: none, or a dict with or without each key
FilterPool ==
    {None, Filters(Missing, Missing)}
        \cup {Filters(s, d) : s \in {Missing, Text("UCP600"), Text("TEST"), Text("ucp600")},
                              d \in {Missing, Text("LC"), Text("lc")}}

CodableRule(logic) ==
    Rule(1, "UCP600-29", "UCP600", RuleText("Expiry Date and Place", 236), CODABLE, logic)
AiRule == SeedRules[2]

\* what the oracle may do: raise, answer with something that is no JSON,
\* with JSON that is no object, or with an object of any of these fields
OracleStatuses ==
    {Missing, None, Text("pass"), Text("fail"), Text("warning"), Text("PASS"),
     Text("unclear"), Num(1), List(1)}
OracleDetails == {Missing, None, Text("Documents appear authentic"), Num(7)}
OracleConfidences ==
    {Missing, None, Text("high"), Text("medium"), Text("low"), Text("certain"), Num(1)}
ApiOutcomes ==
    {ApiError("Connection error."), ApiError("Request timed out."), ApiGarbage,
     ApiContent(List(2)), ApiContent(Text("pass")), ApiContent(None)}
        \cup {ApiContent(Dict(st, d, c)) :
                st \in OracleStatuses, d \in OracleDetails, c \in OracleConfidences}

\* lines of a document: a blank one, a line of text with blanks around it,
\* a header of each pattern, and a number with a dot, which is no header
\* because no blank follows the dot
MaxLines == 3
L_blank == <<" ", " ">>
L_text == <<" ", "m", "u", "s", "t", " ", "e", "x", "a", "m", "i", "n", "e", " ">>
L_article == <<"A", "R", "T", "I", "C", "L", "E", " ", "1", "4", "A", " ", "-", " ", "E", "x", "a", "m">>
L_numbered == <<"1", "4", "b", ".", " ", "P", "e", "r", "i", "o", "d">>
L_ucp == <<"U", "C", "P", "1", "6">>
L_dot == <<"1", "4", ".">>
LinePool == {L_blank, L_text, L_article, L_numbered, L_ucp, L_dot}
ParserSource == <<"U", "c", "p", "6", "0", "0">>

\* the calls: of the interpreter and of the per-rule validation on every
\* logic string and document, of the per-rule validation of an AI-assisted
\* rule on every outcome of the oracle, of the status resolver on every
\* triple of counts, of the parser on every text of up to MaxLines lines
EvalCall ==
    \/ \E l \in LogicPool, e \in DateValues, sh \in DateValues,
          p \in PresentationValues,
          a \in AmountValues, c \in CurrencyValues :
           call = [op |-> "_execute_rule_logic", logic |-> l,
                   document_data |-> Document(e, sh, p, a, c), out |-> Pending]
    \/ \E l \in RuleLogicPool, e \in DateValues, sh \in DateValues,
          p \in PresentationValues,
          a \in AmountValues, c \in CurrencyValues :
           call = [op |-> "_validate_against_rule", rule |-> CodableRule(l),
                   document_data |-> Document(e, sh, p, a, c),
                   api |-> NoOracleCall, out |-> Pending]
    \/ \E a \in DateStrings, b \in DateStrings :
           \/ call = [op |-> "_execute_rule_logic", logic |-> LogicOf({PExpiry}),
                      document_data |-> Document(a, b, None, None, None),
                      out |-> Pending]
           \/ call = [op |-> "_execute_rule_logic", logic |-> LogicOf({PShipment}),
                      document_data |-> Document(None, a, b, None, None),
                      out |-> Pending]
    \/ \E l \in AmountLogics, a \in AmountStrings, e \in {None, S_2024_12_31} :
           call = [op |-> "_execute_rule_logic", logic |-> l,
                   document_data |-> Document(e, None, None, a, None), out |-> Pending]
    \/ \E table \in Stores, filters \in FilterPool :
           call = [op |-> "_get_applicable_rules", table |-> table,
                   filters |-> filters, out |-> Pending]
    \/ \E a \in ApiOutcomes :
           call = [op |-> "_validate_against_rule", rule |-> AiRule,
                   document_data |-> Document(None, None, None, None, None),
                   api |-> a, out |-> Pending]
    \/ \E p \in 0..MaxCount, f \in 0..MaxCount, w \in 0..MaxCount :
           call = [op |-> "_determine_overall_status", passed |-> p, failed |-> f,
                   warnings |-> w, out |-> Pending]
    \/ \E n \in 0..MaxLines : \E lines \in [1..n -> LinePool] :
           call = [op |-> "parse_rules_from_text",
                   text |-> JoinWith(lines, <<"\n">>),
                   source |-> ParserSource, out |-> Pending]

InitEval ==
    /\ rules = SeedRules
    /\ validations = <<>>
    /\ now = Time(0, 5, 250000)
    /\ run = Idle
    /\ response = NoResponse
    /\ history = NoResponse
    /\ peer = NoPeer
    /\ EvalCall

Called(op) == call.op = op /\ call.out # Pending

EvalExecuteRuleLogic ==
    /\ call.op = "_execute_rule_logic"
    /\ call.out = Pending
    /\ call' = [call EXCEPT !.out = _execute_rule_logic(call.logic, call.document_data)]
    /\ UNCHANGED <<rules, validations, now, run, response, history, peer>>

EvalValidateAgainstRule ==
    /\ call.op = "_validate_against_rule"
    /\ call.out = Pending
    /\ call' = [call EXCEPT
           !.out = _validate_against_rule(call.rule, call.document_data, call.api)]
    /\ UNCHANGED <<rules, validations, now, run, response, history, peer>>

EvalDetermineOverallStatus ==
    /\ call.op = "_determine_overall_status"
    /\ call.out = Pending
    /\ call' = [call EXCEPT
           !.out = Return(_determine_overall_status(call.passed, call.failed,
                                                    call.warnings))]
    /\ UNCHANGED <<rules, validations, now, run, response, history, peer>>

EvalGetApplicableRules ==
    /\ call.op = "_get_applicable_rules"
    /\ call.out = Pending
    /\ call' = [call EXCEPT
           !.out = Return(_get_applicable_rules(call.table, call.filters))]
    /\ UNCHANGED <<rules, validations, now, run, response, history, peer>>

EvalParseRulesFromText ==
    /\ call.op = "parse_rules_from_text"
    /\ call.out = Pending
    /\ call' = [call EXCEPT
           !.out = Return(parse_rules_from_text(call.text, call.source))]
    /\ UNCHANGED <<rules, validations, now, run, response, history, peer>>

NextEval ==
    \/ EvalParseRulesFromText
    \/ EvalGetApplicableRules
    \/ EvalExecuteRuleLogic
    \/ EvalValidateAgainstRule
    \/ EvalDetermineOverallStatus

SpecEval == InitEval /\ [][NextEval]_vars


---------------------------------------------------------------------------
(* Properties of the status resolver *)

\* C1: the overall status is Fail whenever the count of failures is
\* positive, otherwise Warning whenever the count of warnings is positive,
\* otherwise Pass, for all non-negative counts; with all counts zero it is
\* Pass.
C1_OverallStatusPrecedence ==
    Called("_determine_overall_status") =>
        /\ call.failed > 0 => call.out = Return(FAIL)
        /\ (call.failed = 0 /\ call.warnings > 0) => call.out = Return(WARNING)
        /\ (call.failed = 0 /\ call.warnings = 0) => call.out = Return(PASS)
        /\ (call.passed = 0 /\ call.failed = 0 /\ call.warnings = 0)
               => call.out = Return(PASS)

\* the resolver was called with failures, warnings and passes at once
C1_FailureDominates ==
    /\ Called("_determine_overall_status")
    /\ call.passed > 0 /\ call.failed > 0 /\ call.warnings > 0
    /\ call.out = Return(FAIL)

---------------------------------------------------------------------------
(* Properties of the interpreter and of the codable branch *)

\* the fields a check needs are "present" when the code's test of them
\* (`... in logic and field and field`) succeeds
Applicable(p, logic, d) ==
    /\ Contains(p, logic)
    /\ CASE p = PExpiry -> Truthy(d.expiry_date) /\ Truthy(d.shipment_date)
         [] p = PShipment -> Truthy(d.shipment_date) /\ Truthy(d.presentation_date)
         [] p = PCurrency -> Truthy(d.currency)
         [] p = PAmount -> Truthy(d.amount)

PatternOrder == <<PExpiry, PShipment, PCurrency, PAmount>>

\* the first pattern of the fixed order that is applicable, "" if none is
FirstApplicable(logic, d) ==
    IF \E k \in 1..4 : Applicable(PatternOrder[k], logic, d)
    THEN PatternOrder[CHOOSE k \in 1..4 :
                          /\ Applicable(PatternOrder[k], logic, d)
                          /\ \A j \in 1..(k - 1) : ~Applicable(PatternOrder[j], logic, d)]
    ELSE ""

\* the details each check can give
DetailsOf(p) ==
    CASE p = PExpiry -> {"Expiry date is after shipment date",
                         "Expiry date is before shipment date"}
      [] p = PShipment -> {"Shipment date is before or equal to presentation date",
                           "Shipment date is after presentation date"}
      [] p = PCurrency -> {"Currency {} is acceptable",
                           "Currency {} may not be acceptable"}
      [] p = PAmount -> {"Amount is positive", "Amount must be positive",
                         "Invalid amount format"}

DetailsText(details) == IF details.t = "fmt" THEN details.text ELSE details.x

ErrorTexts ==
    {"Error executing logic: Unable to parse date: {}",
     "Error executing logic: can't compare offset-naive and offset-aware datetimes",
     "Error executing logic: float() argument must be a string or a real number, not {}"}

\* C10: the interpreter takes the four patterns in the fixed order and
\* evaluates only the first one that occurs in the logic string and whose
\* fields are present in the document: its verdict is the verdict it gives
\* for a logic string of that pattern alone, with details of that check (or
\* of an error of that check), whatever other patterns the string holds;
\* with no applicable pattern it is the default.
C10_FirstApplicableWins ==
    (Called("_execute_rule_logic") /\ Truthy(call.logic)) =>
        LET first == FirstApplicable(call.logic, call.document_data)
        IN  IF first = ""
            THEN call.out = Return(Verdict(TRUE, Text("Rule logic executed successfully")))
            ELSE /\ call.out = _execute_rule_logic(Logic(<<first>>), call.document_data)
                 /\ ~call.out.raised
                 /\ DetailsText(call.out.val.details) \in DetailsOf(first) \cup ErrorTexts

\* a logic string with all four patterns, the amount one written first, on
\* a document where the expiry check passes and the amount check would fail
C10_LaterPatternIgnored ==
    /\ Called("_execute_rule_logic")
    /\ call.logic = LogicOf({PExpiry, PShipment, PCurrency, PAmount})
    /\ call.document_data.expiry_date = S_2024_12_31
    /\ call.document_data.shipment_date = S_2024_12_15
    /\ call.document_data.amount = S_minus50
    /\ call.document_data.currency = S_XYZ
    /\ call.out = Return(Verdict(TRUE, Text("Expiry date is after shipment date")))

CodableCall ==
    /\ Called("_validate_against_rule")
    /\ call.rule.type = CODABLE

\* C9: for a codable rule the result is Pass exactly when the interpreter
\* returns status true and Fail exactly when it returns status false, with
\* the interpreter's details and confidence "high" in both cases; "amount >
\* 0" gives Pass/high on "100000.00" and Fail/high on "-50".
C9_CodableVerdict ==
    CodableCall =>
        LET verdict == _execute_rule_logic(call.rule.logic, call.document_data)
        IN  /\ ~call.out.raised
            /\ ~verdict.raised
            /\ (call.out.val.status = PASS) <=> (verdict.val.status = TRUE)
            /\ (call.out.val.status = FAIL) <=> (verdict.val.status = FALSE)
            /\ call.out.val.confidence_score = Text("high")
            /\ call.out.val.details = verdict.val.details
            /\ call.out.val.rule_id = call.rule.rule_id
            /\ (call.rule.logic = LogicOf({PAmount})
                  /\ call.document_data.amount = S_100000_00)
                   => call.out.val.status = PASS
            /\ (call.rule.logic = LogicOf({PAmount})
                  /\ call.document_data.amount = S_minus50)
                   => call.out.val.status = FAIL

\* "amount > 0" on the amount "-50": Fail with confidence "high"
C9_NegativeAmountFails ==
    /\ CodableCall
    /\ call.rule.logic = LogicOf({PAmount})
    /\ call.document_data.amount = S_minus50
    /\ ~call.out.raised
    /\ call.out.val.status = FAIL
    /\ call.out.val.confidence_score = Text("high")
    /\ call.out.val.details = Text("Amount must be positive")

\* the check the interpreter evaluates hits an error: a date of a date
\* comparison does not parse or the two dates do not compare, or the amount
\* of the amount check does not parse
InterpreterError(logic, d) ==
    /\ Truthy(logic)
    /\ LET first == FirstApplicable(logic, d)
       IN  \/ first = PExpiry /\ ParsedGe(d.expiry_date, d.shipment_date).raised
           \/ first = PShipment /\ ParsedLe(d.shipment_date, d.presentation_date).raised
           \/ first = PAmount /\ float(d.amount).raised

\* C4, as the specification states it: a codable rule whose check hits a
\* parse error gets a result of status Warning and confidence "low".
C4_ParseErrorIsWarning ==
    (CodableCall /\ InterpreterError(call.rule.logic, call.document_data)) =>
        /\ ~call.out.raised
        /\ call.out.val.status = WARNING
        /\ call.out.val.confidence_score = Text("low")

\* C4, as the code has it: a codable rule whose check hits a parse error
\* gets a result of status Fail and confidence "high" whose details name
\* the error; no exception leaves the interpreter or the codable branch.
C4_ParseErrorIsFail ==
    (CodableCall /\ InterpreterError(call.rule.logic, call.document_data)) =>
        /\ ~call.out.raised
        /\ ~_execute_rule_logic(call.rule.logic, call.document_data).raised
        /\ call.out.val.status = FAIL
        /\ call.out.val.confidence_score = Text("high")
        /\ DetailsText(call.out.val.details) \in ErrorTexts \cup {"Invalid amount format"}

\* an expiry check on an expiry date "31/12", which no format parses
C4_UnparseableDate ==
    /\ CodableCall
    /\ call.rule.logic = LogicOf({PExpiry})
    /\ call.document_data.expiry_date = S_31_12
    /\ call.document_data.shipment_date = S_2024_12_15
    /\ ~call.out.raised
    /\ call.out.val.status = FAIL
    /\ call.out.val.details = Message("Error executing logic: Unable to parse date: {}",
                                      S_31_12)


---------------------------------------------------------------------------
(* Properties of the AI-assisted branch *)

AiCall ==
    /\ Called("_validate_against_rule")
    /\ call.rule.type = AI_ASSISTED

Labels == {Text("high"), Text("medium"), Text("low")}

\* the oracle's call returned normally: a JSON object with a status string
\* and, where it gives them, details and a confidence label that are
\* strings or null
OracleReturned(api) ==
    /\ ~api.raised
    /\ api.val.json
    /\ api.val.value.t = "dict"
    /\ api.val.value.status.t = "text"
    /\ api.val.value.details \in {Missing, None} \/ IsString(api.val.value.details)
    /\ \/ api.val.value.confidence_score \in {Missing, None}
       \/ IsString(api.val.value.confidence_score)

\* C8: when the oracle returns normally the result's status is Pass for
\* "pass", Fail for "fail", Warning for "warning" and Warning for every
\* other status string, never an error; the oracle's details and confidence
\* label are passed through, the label being "medium" when omitted, so that
\* the result's confidence is one of high, medium, low whenever the
\* oracle's label is.
C8_OracleStatusMapping ==
    (AiCall /\ OracleReturned(call.api)) =>
        LET o == call.api.val.value
        IN  /\ ~call.out.raised
            /\ o.status = Text("pass") => call.out.val.status = PASS
            /\ o.status = Text("fail") => call.out.val.status = FAIL
            /\ o.status = Text("warning") => call.out.val.status = WARNING
            /\ o.status \notin {Text("pass"), Text("fail"), Text("warning")}
                   => call.out.val.status = WARNING
            /\ call.out.val.details =
                   IF o.details = Missing THEN Text("AI validation completed")
                   ELSE o.details
            /\ call.out.val.confidence_score =
                   IF o.confidence_score = Missing THEN Text("medium")
                   ELSE o.confidence_score
            /\ o.confidence_score \in Labels \cup {Missing}
                   => call.out.val.confidence_score \in Labels
            /\ call.out.val.rule_id = call.rule.rule_id

\* the oracle answered with a status the mapping does not know and with no
\* confidence label
C8_UnknownStatusIsWarning ==
    /\ AiCall
    /\ call.api = ApiContent(Dict(Text("unclear"), Text("Documents appear authentic"),
                                  Missing))
    /\ call.out = Return(ValidationResult(call.rule, WARNING,
                                          Text("Documents appear authentic"),
                                          Text("medium")))

---------------------------------------------------------------------------
(* Properties of a validate run *)

Running == run.pc \in {"loop", "done"}

\* the rules of the run that were evaluated so far
Evaluated == 1..Len(run.validation_results)

\* the oracle's call failed: the API raised, or its answer is no JSON
OracleFailed(k) ==
    /\ run.rules[k].type = AI_ASSISTED
    /\ run.apis[k].raised \/ ~run.apis[k].val.json

FailureDetails(api) ==
    IF api.raised THEN Message("AI validation error: " \o api.text, api.arg)
    ELSE Message("AI validation error: Expecting value: line 1 column 1 (char 0)", None)

\* the response holds the complete report of the run
CompleteReport ==
    /\ response.status_code = 200
    /\ Len(run.validation_results) = Len(run.rules)
    /\ \A k \in 1..Len(run.rules) :
           run.validation_results[k].rule_id = run.rules[k].rule_id
    /\ IF run.endpoint = "quick"
       THEN response.body.summary.total_rules = Len(run.rules)
       ELSE /\ response.body.total_rules_checked = Len(run.rules)
            /\ response.body.results = run.validation_results

C2_RunNeverAborts ==
    /\ Running =>
           /\ response.status_code # 500
           /\ Len(run.validation_results) = run.i - 1
           /\ \A k \in Evaluated :
                  /\ run.validation_results[k].rule_id = run.rules[k].rule_id
                  /\ run.validation_results[k].status \in {PASS, FAIL, WARNING}
           /\ run.passed + run.failed + run.warnings = Len(run.validation_results)
    /\ run.pc = "done" => CompleteReport

\* a run over both rules was answered although the expiry date did not
\* parse, the oracle was unreachable and no record could be persisted
C2_EverythingFailed ==
    /\ run.pc = "done"
    /\ run.endpoint = "validate"
    /\ Len(run.rules) = 2
    /\ run.document_data.expiry_date = S_31_12
    /\ run.apis[2] = ApiError("Connection error.")
    /\ run.commits = <<FALSE, FALSE>>
    /\ response.status_code = 200
    /\ Len(response.body.results) = 2
    /\ response.body.overall_status = FAIL


\* the results a run has when its rules are evaluated on its document with
\* the oracle's outcomes it met, whatever became of the records
ResultsOf(r) ==
    [k \in 1..Len(r.apis) |->
        _validate_against_rule(r.rules[k], r.document_data, r.apis[k]).val]

CountOf(results, statuses) ==
    Cardinality({k \in 1..Len(results) : results[k].status \in statuses})

ReportOf(r, at) ==
    LET results == ResultsOf(r)
    IN  [document_id |-> r.document_id,
         overall_status |->
             IF CountOf(results, {FAIL}) > 0 THEN FAIL
             ELSE IF CountOf(results, {WARNING}) > 0 THEN WARNING
             ELSE PASS,
         total_rules_checked |-> Len(r.rules),
         passed |-> CountOf(results, {PASS}),
         failed |-> CountOf(results, {FAIL}),
         warnings |-> CountOf(results, {WARNING}),
         results |-> results,
         timestamp |-> at]

\* what a record says of a result
Content(rule_id, document_id, result) ==
    [rule_id |-> rule_id, document_id |-> document_id, status |-> result.status,
     details |-> result.details, confidence_score |-> result.confidence_score]

RECURSIVE Committed(_, _)
\* of the first n results of the run, those whose commit succeeded
Committed(r, n) ==
    IF n = 0 THEN <<>>
    ELSE IF r.commits[n]
         THEN Append(Committed(r, n - 1),
                     Content(r.rules[n].id, r.document_id, r.validation_results[n]))
         ELSE Committed(r, n - 1)

\* the records written since the run began
WrittenSince(first) ==
    [j \in 1..(Len(validations) - first) |->
        Content(validations[first + j].rule_id, validations[first + j].document_id,
                validations[first + j])]

\* C6: a failure to persist the record of one rule affects that record
\* only: the run goes on, the report it returns is the report its rules,
\* document and oracle outcomes determine, the same with and without the
\* failure, and the audit log holds, after the records it held when the run
\* began, the record of every result whose commit succeeded, those written
\* before a failure included.
C6_PersistenceFailureIsLocal ==
    Running =>
        /\ response.status_code # 500
        /\ run.validation_results = ResultsOf(run)
        /\ Len(validations) >= run.first
        /\ WrittenSince(run.first) = Committed(run, Len(run.commits))
        /\ run.pc = "done" =>
               /\ response.status_code = 200
               /\ Len(run.commits) = Len(run.rules)
               /\ response.body =
                      ResponseBody(run.endpoint, ReportOf(run, response.body.timestamp))

\* the record of the first rule was written, that of the second was not,
\* and the run was answered with both results
C6_SecondCommitFailed ==
    /\ run.pc = "done"
    /\ run.endpoint = "validate"
    /\ run.commits = <<TRUE, FALSE>>
    /\ Len(validations) = run.first + 1
    /\ validations[run.first + 1].rule_id = run.rules[1].id
    /\ response.status_code = 200
    /\ Len(response.body.results) = 2

\* C5, as the quick endpoint's description states it: a quick validation
\* stores no results, the audit log being after the call what it was
\* before it.
C5_QuickStoresNothing ==
    (Running /\ run.endpoint = "quick") => Len(validations) = run.first

\* a quick validation was answered with its summary and left a record
C5_QuickStoredRecord ==
    /\ run.pc = "done"
    /\ run.endpoint = "quick"
    /\ response.status_code = 200
    /\ response.body.summary.total_rules = 2
    /\ Len(validations) = run.first + 2

---------------------------------------------------------------------------
(* Properties of the history *)

\* the minutes in which the document of the history has records
MinutesOf(document_id) ==
    {validations[k].timestamp.minute : k \in Matching(document_id)}

\* C3, as the specification states it: the history groups a document's
\* records by the minute of their timestamp: records whose timestamps
\* differ only in their seconds are in one session and records of
\* different minutes in different sessions, so that there is one session
\* for each minute in which the document has records.
C3_SessionsByMinute ==
    history.status_code = 200 =>
        /\ history.total_sessions = Cardinality(MinutesOf(history.document_id))
        /\ \A a, b \in 1..Len(history.sessions) :
               a # b => history.sessions[a].timestamp.minute
                            # history.sessions[b].timestamp.minute

\* two records of one document, written in the same minute at different
\* seconds, are in two sessions
C3_SameMinuteTwoSessions ==
    /\ history.status_code = 200
    /\ Cardinality(MinutesOf(history.document_id)) = 1
    /\ history.total_sessions = 2

---------------------------------------------------------------------------
(* Properties of the interpreter's defaults *)

\* no check is applicable to the logic string and the document: the string
\* is not empty and holds no pattern, or each pattern it holds lacks a field
NoneApplicable(logic, d) == Truthy(logic) /\ FirstApplicable(logic, d) = ""

\* C11: when a codable rule's logic is not empty and no pattern is
\* applicable (none occurs in the logic, or the fields of every one that
\* occurs are missing from the document), the interpreter returns status
\* true with details "Rule logic executed successfully", and the rule's
\* result is Pass with confidence "high".
C11_PermissiveDefault ==
    /\ (Called("_execute_rule_logic") /\ NoneApplicable(call.logic, call.document_data))
           => call.out = Return(Verdict(TRUE, Text("Rule logic executed successfully")))
    /\ (CodableCall /\ NoneApplicable(call.rule.logic, call.document_data))
           => call.out = Return(ValidationResult(call.rule, PASS,
                                    Text("Rule logic executed successfully"),
                                    Text("high")))

\* the expiry rule on a document without an expiry date passes
C11_MissingExpiryPasses ==
    /\ CodableCall
    /\ call.rule.logic = LogicOf({PExpiry})
    /\ call.document_data.expiry_date = None
    /\ call.document_data.shipment_date = S_2024_12_15
    /\ ~call.out.raised
    /\ call.out.val.status = PASS
    /\ call.out.val.confidence_score = Text("high")
    /\ call.out.val.details = Text("Rule logic executed successfully")

\* a codable rule's logic is null or the empty string
NoLogic == CodableCall /\ ~Truthy(call.rule.logic)

\* C12, as the specification states it: a codable rule whose logic is null
\* or empty is evaluated without a crash and its result is a Warning that
\* says no logic is defined.
C12_NoLogicIsWarning ==
    NoLogic =>
        /\ ~call.out.raised
        /\ call.out.val.status = WARNING
        /\ call.out.val.details = Text("No logic defined for this rule")

\* C12, as the code has it: a codable rule whose logic is null or empty is
\* evaluated without a crash; the interpreter returns status false with
\* details "No logic defined for this rule", and the rule's result is Fail
\* with confidence "high".
C12_NoLogicIsFail ==
    NoLogic =>
        /\ call.out = Return(ValidationResult(call.rule, FAIL,
                                 Text("No logic defined for this rule"), Text("high")))
        /\ _execute_rule_logic(call.rule.logic, call.document_data)
               = Return(Verdict(FALSE, Text("No logic defined for this rule")))

\* a rule with null logic was evaluated on a compliant document
C12_NullLogicFails ==
    /\ CodableCall
    /\ call.rule.logic = None
    /\ call.document_data.amount = S_100000_00
    /\ call.document_data.currency = S_USD
    /\ ~call.out.raised
    /\ call.out.val.status = FAIL

---------------------------------------------------------------------------
(* Properties of the amount check *)

\* the interpreter was called with a logic string that holds "amount > 0",
\* no earlier pattern being applicable, on a document whose amount is the
\* string amount
AmountCall(amount) ==
    /\ Called("_execute_rule_logic")
    /\ Truthy(call.logic)
    /\ Contains(PAmount, call.logic)
    /\ \A k \in 1..3 : ~Applicable(PatternOrder[k], call.logic, call.document_data)
    /\ call.document_data.amount = amount

\* C13, as the specification states it: with "amount > 0" in the logic and
\* no earlier pattern applicable, for every string value of the amount, a
\* string that denotes a positive number gives status true, one that
\* denotes zero or a negative number status false, and one that denotes no
\* number status false without an exception.
C13_EveryAmountString ==
    \A a \in AmountStrings :
        AmountCall(a) =>
            /\ ~call.out.raised
            /\ a \in PositiveStrings => call.out.val.status = TRUE
            /\ a \in NonPositiveStrings => call.out.val.status = FALSE
            /\ a \in NonNumericStrings => call.out.val.status = FALSE

\* C13, as the code has it: the same for every string that is not empty,
\* with the details of the amount check; the empty string counts as a
\* missing amount, so that no check is applicable and the status is the
\* default, true.
C13_EveryNonEmptyAmountString ==
    \A a \in AmountStrings :
        AmountCall(a) =>
            /\ ~call.out.raised
            /\ (a \in PositiveStrings)
                   => call.out = Return(Verdict(TRUE, Text("Amount is positive")))
            /\ (a \in NonPositiveStrings)
                   => call.out = Return(Verdict(FALSE, Text("Amount must be positive")))
            /\ (a = S_nan)
                   => call.out = Return(Verdict(FALSE, Text("Amount must be positive")))
            /\ (a \in NonNumericStrings \ {S_empty, S_nan})
                   => call.out = Return(Verdict(FALSE, Text("Invalid amount format")))
            /\ (a = S_empty)
                   => call.out = Return(Verdict(TRUE,
                                                Text("Rule logic executed successfully")))

\* the amount check on the empty string: the default
C13_EmptyAmountPasses ==
    /\ AmountCall(S_empty)
    /\ call.logic = LogicOf({PAmount})
    /\ call.out = Return(Verdict(TRUE, Text("Rule logic executed successfully")))

---------------------------------------------------------------------------
(* Properties of the date checks *)

\* the instant a date string denotes, in minutes since 2024-12-01 00:00
\* UTC, a date without a time being its midnight and a time without an
\* offset being read as UTC
Instant(s) ==
    CASE s = S_2024_12_15 -> 14 * 1440
      [] s = S_15_12_2024 -> 14 * 1440
      [] s = S_12_16_2024 -> 15 * 1440
      [] s = S_2024_12_15_1030 -> 14 * 1440 + 10 * 60 + 30
      [] s = S_2024_12_15T0900 -> 14 * 1440 + 9 * 60
      [] s = S_2024_12_20Z -> 19 * 1440
      [] s = S_2024_12_20T0100_0200 -> 19 * 1440 + 60 - 120
      [] s = S_2024_12_31 -> 30 * 1440

\* the interpreter was called with the date pattern p alone on the dates a
\* and b, which both parse
DateCall(p, a, b) ==
    /\ Called("_execute_rule_logic")
    /\ call.logic = LogicOf({p})
    /\ IF p = PExpiry
       THEN call.document_data.expiry_date = a /\ call.document_data.shipment_date = b
       ELSE call.document_data.shipment_date = a
                /\ call.document_data.presentation_date = b
    /\ ~_parse_date(a).raised /\ ~_parse_date(b).raised

\* C14, as the specification states it: for the two date patterns and every
\* pair of dates that both parse, each in any accepted format, the status
\* is true exactly when the chronological relation holds: expiry at or
\* after shipment, shipment at or before presentation.
C14_ChronologicalOrder ==
    \A a, b \in DateStrings :
        /\ DateCall(PExpiry, a, b)
               => /\ ~call.out.raised
                  /\ call.out.val.status = (Instant(a) >= Instant(b))
        /\ DateCall(PShipment, a, b)
               => /\ ~call.out.raised
                  /\ call.out.val.status = (Instant(a) <= Instant(b))

\* an expiry date without an offset after a shipment date with one: both
\* parse, the expiry is the later, and the status is false
C14_NaiveAgainstAware ==
    /\ DateCall(PExpiry, S_2024_12_31, S_2024_12_20Z)
    /\ call.out = Return(Verdict(FALSE,
           Message("Error executing logic: can't compare offset-naive and offset-aware datetimes",
                   None)))

\* the same for every pair of dates that both have an offset or both have
\* none
SameKind(a, b) == _parse_date(a).val.aware = _parse_date(b).val.aware
C14_ChronologicalOrderOfSameKind ==
    \A a, b \in DateStrings :
        /\ (DateCall(PExpiry, a, b) /\ SameKind(a, b))
               => call.out.val.status = (Instant(a) >= Instant(b))
        /\ (DateCall(PShipment, a, b) /\ SameKind(a, b))
               => call.out.val.status = (Instant(a) <= Instant(b))

---------------------------------------------------------------------------
(* Properties of the rule selection *)

\* the source filter of a request's filters, Missing if it gives none
SourceFilter(f) == IF f = None THEN Missing ELSE f.source
\* the request's filters hold domain = LC
DomainLC(f) == f # None /\ f.domain = Text("LC")

\* the rule is one the filters ask for
Selected(r, f) ==
    /\ SourceFilter(f) = Missing \/ Text(r.source) = SourceFilter(f)
    /\ ~DomainLC(f) \/ r.source \in {"UCP600", "ISBP", "eUCP"}

\* C15: the selection returns exactly the stored rules r for which (no
\* source filter is given or r.source equals it) and (no domain = LC filter
\* is given or r.source is one of UCP600, ISBP, eUCP), in the store's
\* order; the two filters combine conjunctively, and with no filters every
\* stored rule is returned.
C15_RuleSelection ==
    Called("_get_applicable_rules") =>
        /\ ~call.out.raised
        /\ call.out.val = SelectSeq(call.table, LAMBDA r : Selected(r, call.filters))
        /\ (call.filters = None \/ call.filters = Filters(Missing, Missing))
               => call.out.val = call.table

\* with source = UCP600 and domain = LC, of a UCP600, an ISBP and a TEST
\* rule the first alone is selected
C15_BothFilters ==
    /\ Called("_get_applicable_rules")
    /\ call.filters = Filters(Text("UCP600"), Text("LC"))
    /\ Len(call.table) = 3
    /\ call.table[1].source = "UCP600"
    /\ call.table[2].source = "ISBP"
    /\ call.table[3].source = "TEST"
    /\ call.out = Return(<<call.table[1]>>)

---------------------------------------------------------------------------
(* Properties of the persisted state *)

\* C16: no step of the validation endpoints or of the history endpoint
\* creates, changes or deletes a rule, and none changes or removes a record
\* persisted earlier: the table of validations only grows at its end.
C16_AppendOnly ==
    [][/\ rules' = rules
       /\ Len(validations') >= Len(validations)
       /\ SubSeq(validations', 1, Len(validations)) = validations]_vars

\* the same rule was evaluated twice for one document, both records are
\* kept and a history was read
C16_SameRuleTwice ==
    /\ Len(validations) = 2
    /\ validations[1].rule_id = validations[2].rule_id
    /\ validations[1].document_id = validations[2].document_id
    /\ validations[1].timestamp # validations[2].timestamp
    /\ rules = SeedRules
    /\ history.status_code = 200

---------------------------------------------------------------------------
(* Properties of the history endpoint *)

\* the records persisted for a document
RecordsOf(document_id) ==
    {k \in 1..Len(validations) : validations[k].document_id = document_id}

\* C17 as stated: the history of a document is answered "not found" exactly
\* when no record exists for it, with sessions when one exists, and there is
\* no other failure
C17_NotFoundOnlyFailure ==
    history # NoResponse =>
        /\ history.status_code \in {200, 404}
        /\ history.status_code = 404 <=> RecordsOf(history.request) = {}

\* C17: when the store answers the query, the history of a document is
\* answered "not found" (404) exactly when no record exists for it and with
\* at least one session otherwise; when the query raises, the answer is the
\* second failure outcome, 500 "Error retrieving validation history: ...",
\* whether or not records exist.
C17_NotFoundOrStoreError ==
    history # NoResponse =>
        /\ history.status_code \in {200, 404, 500}
        /\ history.status_code = 404 =>
               /\ RecordsOf(history.request) = {}
               /\ history.detail = "No validation history found for this document"
        /\ history.status_code = 200 =>
               /\ RecordsOf(history.request) # {}
               /\ history.document_id = history.request
               /\ history.total_sessions = Len(history.sessions)
               /\ history.total_sessions >= 1
        /\ history.status_code = 500 =>
               history.detail = Prefixed("Error retrieving validation history: ", StoreError)

\* a document without records was asked for while the other had some
C17_UnknownDocument ==
    /\ history.status_code = 404
    /\ RecordsOf(history.request) = {}
    /\ Len(validations) > 0

\* the query raised although the document has records
C17_StoreErrorWithRecords ==
    /\ history.status_code = 500
    /\ RecordsOf(history.request) # {}

RECURSIVE Entries(_, _)
\* the entries of the first n sessions
Entries(sessions, n) ==
    IF n = 0 THEN <<>> ELSE Entries(sessions, n - 1) \o sessions[n].results

\* what an entry shows of the record it was written from
Shown(entry) ==
    [rule_id |-> entry.rule_id, status |-> entry.status,
     details |-> entry.details, confidence_score |-> entry.confidence_score]

\* what a record has to show: its rule's identifier and its own content
ShownOf(validation) ==
    [rule_id |-> RuleOf(rules, validation.rule_id).rule_id,
     status |-> validation.status, details |-> validation.details,
     confidence_score |-> validation.confidence_score]

KeyLess(a, b) ==
    \/ a.minute < b.minute
    \/ a.minute = b.minute /\ a.second < b.second

\* C18: a history answered for a document with N persisted records has
\* sessions whose entries total N; the entries of each session are those of
\* the document's records of that session's second, each with the status,
\* details and confidence of its record (which are those of the per-rule
\* result, see C6), as many times as there are such records; and the
\* sessions come most recent first.
C18_RoundTrip ==
    history.status_code = 200 =>
        LET ids == RecordsOf(history.request)
            sessions == history.sessions
            entries == Entries(sessions, Len(sessions))
        IN  /\ Len(entries) = Cardinality(ids)
            /\ \A s \in 1..Len(sessions) :
                   LET key == TimestampKey(sessions[s].timestamp)
                       results == sessions[s].results
                       records == {k \in ids :
                                      TimestampKey(validations[k].timestamp) = key}
                   IN  \A e \in {Shown(results[j]) : j \in 1..Len(results)}
                                \cup {ShownOf(validations[k]) : k \in records} :
                           Cardinality({j \in 1..Len(results) : Shown(results[j]) = e})
                               = Cardinality({k \in records : ShownOf(validations[k]) = e})
            /\ \A a, b \in 1..Len(sessions) :
                   a < b => KeyLess(TimestampKey(sessions[b].timestamp),
                                    TimestampKey(sessions[a].timestamp))

\* two records of one document, written at different seconds with different
\* statuses, were read back as two sessions
C18_TwoSessionsReadBack ==
    /\ history.status_code = 200
    /\ Cardinality(RecordsOf(history.request)) = 2
    /\ Len(history.sessions) = 2
    /\ history.sessions[1].results[1].status # history.sessions[2].results[1].status
    /\ history.sessions[1].results[1].confidence_score # None

---------------------------------------------------------------------------
(* Properties of the endpoint's error handling *)

\* C20 as stated: a validation request is answered with a top-level error
\* only when the request is malformed (422) or the rule store cannot be
\* queried (500 with the store's error); every other failure, that of
\* constructing the oracle's client included, ends in a report.
C20_TopLevelErrorOnlyForStoreOrRequest ==
    response.status_code \in {422, 500} =>
        \/ response.status_code = 422
        \/ response = EndpointExcept(StoreError)

\* the oracle's client could not be constructed and the request was
\* answered 500 without a report
C20_ClientConstructionFailed ==
    /\ response = EndpointExcept(ClientError)
    /\ run = Idle

---------------------------------------------------------------------------
(* Properties of concurrent runs *)

\* the records a request has written
Written(r) == IF r.pc = "idle" THEN <<>> ELSE Committed(r, Len(r.commits))

\* the elements of seq at the positions in P, in their order
Pick(seq, P) ==
    LET F[n \in 0..Len(seq)] ==
            IF n = 0 THEN <<>>
            ELSE IF n \in P THEN Append(F[n - 1], seq[n]) ELSE F[n - 1]
    IN  F[Len(seq)]

\* a request in flight or answered has the results, and when answered the
\* report, that its rules, document and oracle outcomes determine
Alone(r, resp) ==
    r.pc # "idle" =>
        /\ r.validation_results = ResultsOf(r)
        /\ r.pc = "done" =>
               /\ resp.status_code = 200
               /\ Len(r.commits) = Len(r.rules)
               /\ resp.body = ResponseBody(r.endpoint, ReportOf(r, resp.body.timestamp))

\* C19: two validation runs whose per-rule steps interleave in any order
\* are independent: each has the results and returns the report it would
\* have alone, and the audit log holds exactly the records of both, each
\* run's in its own order, none lost or overwritten, under distinct keys.
C19_ConcurrentRunsIndependent ==
    /\ Alone(run, response)
    /\ Alone(peer.run, peer.response)
    /\ \A k \in 1..Len(validations) : validations[k].id = k
    /\ \E P \in SUBSET (1..Len(validations)) :
           /\ Pick(WrittenSince(0), P) = Written(run)
           /\ Pick(WrittenSince(0), (1..Len(validations)) \ P) = Written(peer.run)

\* two runs for the same document, both begun before either wrote a
\* record, evaluated the same rule with different outcomes, and both
\* records are in the audit log
C19_InterleavedSameDocument ==
    /\ run.pc = "done"
    /\ peer.run.pc = "done"
    /\ run.document_id = peer.run.document_id
    /\ Len(run.rules) = 1
    /\ run.rules = peer.run.rules
    /\ run.validation_results # peer.run.validation_results
    /\ run.commits = <<TRUE>>
    /\ peer.run.commits = <<TRUE>>
    /\ Len(validations) = 2
    /\ \E a, b \in {run, peer.run} :
           /\ a.first = 0
           /\ b.first = 0
           /\ a # b

---------------------------------------------------------------------------
(* Properties of the interpreter's error handling *)

\* C23: no exception leaves the interpreter: every call returns a verdict
\* with a boolean status; for a logic that is null or empty the verdict is
\* status false with details "No logic defined for this rule"; and when the
\* check it evaluates raises (a date that does not parse, two dates that do
\* not compare, an amount that is no number) the verdict is status false
\* with details that name the error.
C23_InterpreterNeverRaises ==
    Called("_execute_rule_logic") =>
        /\ ~call.out.raised
        /\ call.out.val.status \in BOOLEAN
        /\ IsString(call.out.val.details)
        /\ ~Truthy(call.logic) =>
               call.out = Return(Verdict(FALSE, Text("No logic defined for this rule")))
        /\ InterpreterError(call.logic, call.document_data) =>
               /\ call.out.val.status = FALSE
               /\ DetailsText(call.out.val.details)
                      \in ErrorTexts \cup {"Invalid amount format"}

\* the amount check was run on an amount that is a list, which float()
\* rejects with a TypeError the inner handler does not catch
C23_AmountIsAList ==
    /\ Called("_execute_rule_logic")
    /\ call.logic = LogicOf({PAmount})
    /\ call.document_data.amount = List(1)
    /\ call.out = Return(Verdict(FALSE, Message(
           "Error executing logic: float() argument must be a string or a real number, not {}",
           List(1))))

---------------------------------------------------------------------------
(* Properties of the order of a run *)

\* the identifiers of the rules of a sequence of results or rules
RuleIds(seq) == [k \in 1..Len(seq) |-> seq[k].rule_id]

\* C24: a run evaluates its rules one at a time in the order the store
\* returned them: the step that evaluates rule i finds the results of rules
\* 1..i-1 and adds that of rule i at their end, and in the same step the
\* record of rule i is written at the end of the audit log (or not at all
\* when its commit fails), before rule i+1 is evaluated; the report's
\* results are in the order of the rules, and so are the run's records.
C24_SequentialInOrder ==
    [][/\ (run.pc = "loop" /\ run'.pc = "loop" /\ run' # run) =>
              /\ run'.i = run.i + 1
              /\ Len(run.validation_results) = run.i - 1
              /\ Len(run'.validation_results) = run.i
              /\ SubSeq(run'.validation_results, 1, run.i - 1) = run.validation_results
              /\ run'.validation_results[run.i].rule_id = run.rules[run.i].rule_id
              /\ \/ validations' = validations
                 \/ /\ Len(validations') = Len(validations) + 1
                    /\ SubSeq(validations', 1, Len(validations)) = validations
                    /\ Content(validations'[Len(validations')].rule_id,
                               validations'[Len(validations')].document_id,
                               validations'[Len(validations')])
                           = Content(run.rules[run.i].id, run.document_id,
                                     run'.validation_results[run.i])
       /\ (run.pc = "loop" /\ run'.pc = "done" /\ run.endpoint = "validate") =>
              /\ response'.body.results = run.validation_results
              /\ RuleIds(response'.body.results) = RuleIds(run.rules)
              /\ WrittenSince(run.first) = Committed(run, Len(run.rules))]_vars

\* a run over two rules was answered and both records are in the audit
\* log, the first rule's before the second's
C24_TwoRulesInOrder ==
    /\ run.pc = "done"
    /\ run.endpoint = "validate"
    /\ Len(run.rules) = 2
    /\ run.rules[1].rule_id # run.rules[2].rule_id
    /\ run.commits = <<TRUE, TRUE>>
    /\ RuleIds(response.body.results) = RuleIds(run.rules)
    /\ validations[run.first + 1].rule_id = run.rules[1].id
    /\ validations[run.first + 2].rule_id = run.rules[2].id

---------------------------------------------------------------------------
(* Properties of the report's counts *)

\* C28: in every report the validate endpoint returns, the counts of
\* passed, failed and warnings add up to total_rules_checked, which is the
\* length of results and the number of rules selected for the run, and
\* each count is the number of results with that status.
C28_CountsAddUp ==
    (run.pc = "done" /\ run.endpoint = "validate" /\ response.status_code = 200) =>
        LET report == response.body
        IN  /\ report.passed + report.failed + report.warnings
                   = report.total_rules_checked
            /\ report.total_rules_checked = Len(report.results)
            /\ report.total_rules_checked = Len(run.rules)
            /\ report.passed = CountOf(report.results, {PASS})
            /\ report.failed = CountOf(report.results, {FAIL})
            /\ report.warnings = CountOf(report.results, {WARNING})

\* a report of one failed rule and one warning
C28_OneFailedOneWarning ==
    /\ run.pc = "done"
    /\ run.endpoint = "validate"
    /\ response.status_code = 200
    /\ response.body.total_rules_checked = 2
    /\ response.body.passed = 0
    /\ response.body.failed = 1
    /\ response.body.warnings = 1

---------------------------------------------------------------------------
(* Properties of the sessions of a history *)

\* the session of the history in which a record is shown
SessionOf(k) ==
    SessionIndex(history.sessions, TimestampKey(validations[k].timestamp))

\* the records the run in progress has written, and those that earlier
\* runs wrote for its document
OwnRecords == (run.first + 1)..Len(validations)
EarlierRecords ==
    {k \in 1..run.first : validations[k].document_id = run.document_id}

\* C25 as stated: in a history of a document, the records one run wrote
\* for it are all in the same session, and the records of two different
\* runs are in different sessions.
C25_SessionIsOneRun ==
    (run.pc = "loop" /\ history.status_code = 200
        /\ history.request = run.document_id) =>
        /\ \A j, k \in OwnRecords : SessionOf(j) = SessionOf(k)
        /\ \A j \in OwnRecords, k \in EarlierRecords : SessionOf(j) # SessionOf(k)

\* a second run for a document wrote a record within the second in which
\* the first run wrote its own, and the history shows both in one session
C25_TwoRunsOneSession ==
    /\ run.pc = "loop"
    /\ history.status_code = 200
    /\ history.request = run.document_id
    /\ OwnRecords # {}
    /\ EarlierRecords # {}
    /\ Len(history.sessions) = 1
    /\ Len(history.sessions[1].results) = 2

\* the two records of one run were written either side of a change of the
\* second and the history shows them as two sessions
C25_OneRunTwoSessions ==
    /\ run.pc = "loop"
    /\ history.status_code = 200
    /\ history.request = run.document_id
    /\ run.first = 0
    /\ Len(validations) = 2
    /\ Len(history.sessions) = 2

---------------------------------------------------------------------------
(* Properties of the handling of invalid input *)

\* C21 as stated: a validation request with an empty document id and an
\* empty document is answered with a client or server error and never with
\* a report.
C21_EmptyRequestIsAnError ==
    (response # NoResponse /\ run.pc \in {"idle", "done"}) =>
        response.status_code \in {400, 422, 500}

\* the empty request was answered 200 with a report over both rules whose
\* overall status is Pass
C21_EmptyRequestPasses ==
    /\ run.pc = "done"
    /\ run.document_id = ""
    /\ run.document_data = Document(None, None, None, None, None)
    /\ response.status_code = 200
    /\ response.body.document_id = ""
    /\ response.body.total_rules_checked = 2
    /\ response.body.overall_status = PASS

---------------------------------------------------------------------------
(* Properties of the parser *)

\* the lines the scan looks at: the lines of the text without the blanks
\* around them, the blank ones left out
ScannedLines(lines) ==
    SelectSeq([k \in 1..Len(lines) |-> Strip(lines[k])], LAMBDA l : l # <<>>)

IsHeader(line) == _match_article_pattern(line) # None

\* the position of the first header after position h, or the position
\* after the last line
NextHeader(L, h) ==
    CHOOSE j \in (h + 1)..(Len(L) + 1) :
        /\ j = Len(L) + 1 \/ IsHeader(L[j])
        /\ \A i \in (h + 1)..(j - 1) : ~IsHeader(L[i])

\* the headers that are followed by a line of text before the next header
WithBody(L) == {h \in 1..Len(L) : IsHeader(L[h]) /\ NextHeader(L, h) > h + 1}

\* out holds one rule for every header with a body, in the order of the
\* headers, with the identifier and the text the claim gives
ParsedAsClaimed(L, source, out) ==
    /\ Len(out) = Cardinality(WithBody(L))
    /\ \A h \in WithBody(L) :
           LET rule == out[Cardinality({g \in WithBody(L) : g <= h})]
           IN  /\ rule.article = _match_article_pattern(L[h]).article
               /\ rule.rule_id = upper(source) \o <<"-">> \o rule.article
               /\ rule.text = JoinWith(SubSeq(L, h + 1, NextHeader(L, h) - 1), <<" ">>)

---------------------------------------------------------------------------
(* Properties of the rule store *)

\* C22: in every state of the rule store, after any uploads, seeding,
\* updates and deletes, a stored rule has non-null logic only if its type
\* is codable.
C22_LogicOnlyOnCodable ==
    \A k \in 1..Len(rules) : rules[k].logic # None => rules[k].type = CODABLE

\* an update that sent only logic was accepted for an AI-assisted rule
C22_UpdateSetsLogicOnAiAssisted ==
    /\ call.op = "update_rule"
    /\ response.status_code = 200
    /\ response.body.type = AI_ASSISTED
    /\ response.body.logic = Logic(<<PAmount>>)
    /\ Stored(rules, call.rule_id)
    /\ rules[FirstByRuleId(rules, call.rule_id)] = response.body

\* the request of the step was a lookup by rule_id that the store answered
LookedUp(c) ==
    /\ c.op \in {"get_rule", "update_rule", "delete_rule"}
    /\ ~c.query.raised

\* C26: reading, updating or deleting a rule by a rule_id that is not
\* stored is answered "Rule not found" (404) and leaves the rule store
\* unchanged; after a successful delete the rule_id is not stored, so that
\* reading it is answered "Rule not found".
C26_NotFoundAndUnchanged ==
    [][/\ (LookedUp(call') /\ ~Stored(rules, call'.rule_id)) =>
              (response' = RuleNotFound /\ rules' = rules)
       /\ (LookedUp(call') /\ response' = RuleNotFound) =>
              ~Stored(rules, call'.rule_id)
       /\ (call'.op = "delete_rule" /\ response'.status_code = 200) =>
              (Stored(rules, call'.rule_id) /\ ~Stored(rules', call'.rule_id))]_vars

\* the store was seeded, UCP600-29 was deleted, and reading it is answered
\* "Rule not found"
C26_ReadAfterDelete ==
    /\ call.op = "get_rule"
    /\ call.rule_id = "UCP600-29"
    /\ response = RuleNotFound
    /\ Len(rules) = 1
    /\ rules[1] = SampleRules[1]

\* C27: rule_id is unique among the stored rules; an upload skips each
\* parsed rule whose rule_id is stored, leaving the stored rule unchanged,
\* creates a rule for every other parsed rule and reports the number
\* created.
C27_UploadCreatesEveryNewRule ==
    [][(call'.op = "upload_pdf_rules" /\ call'.ok /\ call'.parsed # <<>>) =>
           /\ response'.status_code = 200
           /\ SubSeq(rules', 1, Len(rules)) = rules
           /\ \A p \in 1..Len(call'.parsed) : Stored(rules', call'.parsed[p].rule_id)
           /\ response'.rules_created = Len(rules') - Len(rules)
           /\ \A j, k \in 1..Len(rules') :
                  rules'[j].rule_id = rules'[k].rule_id => j = k]_vars

\* an upload whose document holds the rule_id UCP600-14a twice, on a store
\* without it: the answer is 500 and the rule is not stored
C27_SameRuleIdTwiceInUpload ==
    /\ call.op = "upload_pdf_rules"
    /\ call.ok
    /\ call.parsed = <<Parsed14a, Parsed14a_again>>
    /\ response.status_code = 500
    /\ ~Stored(rules, "UCP600-14a")

---------------------------------------------------------------------------
(* Properties of the history after updates of the rules *)

\* what an entry has to show of a record: the identifier and the text of
\* the record's rule as the store holds it now, the text cut to 100
\* characters, and the record's own status, details and confidence
EntryOf(validation) ==
    LET rule == RuleOf(rules, validation.rule_id)
    IN  [rule_id |-> rule.rule_id,
         rule_text |-> IF rule.text.len > 100
                       THEN [name |-> rule.text.name, len |-> 100, dots |-> TRUE]
                       ELSE rule.text,
         status |-> validation.status,
         details |-> validation.details,
         confidence_score |-> validation.confidence_score]

\* C30: the entries of a history show the rule identifier and the rule
\* text of the rule as stored when the history is read, the text cut to 100
\* characters plus "..." when longer, and the status, details and confidence
\* of the record: after an update of a rule's text the history shows the
\* new text also for the records written before the update.
C30_TextAsStoredAtReadTime ==
    history.status_code = 200 =>
        LET ids == RecordsOf(history.request)
            sessions == history.sessions
        IN  \A s \in 1..Len(sessions) :
                LET results == sessions[s].results
                    records == {k \in ids :
                                   TimestampKey(validations[k].timestamp)
                                       = TimestampKey(sessions[s].timestamp)}
                IN  \A e \in {results[j] : j \in 1..Len(results)}
                             \cup {EntryOf(validations[k]) : k \in records} :
                        Cardinality({j \in 1..Len(results) : results[j] = e})
                            = Cardinality({k \in records : EntryOf(validations[k]) = e})

\* a record of UCP600-29 was written, then the rule's text was updated to
\* a text of 101 characters, and the history shows the record with the new
\* text cut to 100 characters and with the status it was written with
C30_UpdatedTextOnEarlierRecord ==
    /\ history.status_code = 200
    /\ call.op = "update_rule"
    /\ call.rule_id = "UCP600-29"
    /\ \E k \in RecordsOf(history.request) :
           /\ RuleOf(rules, validations[k].rule_id).rule_id = "UCP600-29"
           /\ TimeLess(validations[k].timestamp, call.at)
           /\ \E s \in 1..Len(history.sessions) :
                  \E j \in 1..Len(history.sessions[s].results) :
                      LET entry == history.sessions[s].results[j]
                      IN  /\ entry.rule_id = "UCP600-29"
                          /\ entry.rule_text.name
                                 = "Documents must appear on their face to be authentic"
                          /\ entry.rule_text.len = 100
                          /\ entry.rule_text.dots
                          /\ entry.status = validations[k].status

====
